---- MODULE Spec2Model ----
(***************************************************************************)
(* A model of xterm-mouse: the Mouse class (event router, click synthesis, *)
(* the eventsOf()/stream() async generators) on top of a Node EventEmitter *)
(* and the cooperative scheduler (process.nextTick queue, promise jobs).   *)
(***************************************************************************)
EXTENDS Integers, Sequences, FiniteSets, TLC

\* ------------------------------------------------------------------ bounds
\* Total number of decoded events the input transport delivers in one run.
MaxEvents == 4
\* Longest decoded chunk (events per 'data' notification).
MaxChunk == 2
\* Number of events delivered in the runs that fill a queue up to its ceiling.
MaxFlood == 1002
\* Number of events decoded in the runs that go through every combined code.
MaxDecoded == 1
\* Most 'data' handlers the runs with failing transports attach to the input.
MaxHandlers == 2

\* ------------------------------------------------------- program constants
\* Math.min(maxQueue, 1000) in eventsOf().
QueueCeiling == 1000

\* ----------------------------------------------------------------- values
Null == [null |-> TRUE]

Min(a, b) == IF a < b THEN a ELSE b
Max(a, b) == IF a > b THEN a ELSE b
Abs(a) == IF a < 0 THEN -a ELSE a

\* MouseEventAction
Actions == {"move", "release", "press", "drag", "wheel", "click"}
\* Every name the emitter is used with.
Channels == Actions \cup {"error"}

\* The error a throwing listener raises, and the errors the streams build.
HandlerError == [name |-> "Error", message |-> <<"Handler error">>]
AbortedError == [name |-> "Error", message |-> <<"The operation was aborted.">>]
AbortedMouseError == [name |-> "MouseError", message |-> <<"The operation was aborted.">>]
StreamError(err) ==
  [name |-> "MouseError", message |-> <<"Error in mouse event stream: ">> \o err.message]

\* Listener functions.  A plain listener is a callback given to on(); the
\* others are the closures a stream subscription registers.
PlainListeners == {"a", "b", "t"}
\* The plain listeners whose body throws.
Throwers == {"t"}
Subs == {"s1", "s2"}
Plain(p) == <<"plain", p>>
Handler(s) == <<"handler", s>>
ErrorHandler(s) == <<"errorHandler", s>>

VARIABLES
  enabled,      \* Mouse.enabled
  lastPress,    \* Mouse.lastPress
  listeners,    \* the EventEmitter: channel -> listeners in registration order
  tickQueue,    \* process.nextTick callbacks not yet run (the deferred click emits)
  subs,         \* the async generators made by eventsOf()/stream(): closure state
  aborted,      \* AbortSignal.aborted of each subscription's signal
  abortListeners, \* the subscriptions whose abortHandler is registered on their signal
  abortedAt,    \* how many events had been delivered when each signal was aborted
  lastYield,    \* the number of the event each subscription yielded last (0: none yet)
  nextId,       \* number of decoded events delivered so far (events are numbered)
  chunk,        \* the fragments of the data chunk the last step decoded (<<>>: none)
  op,           \* the operation the last step ran
  emitted,      \* emit() calls of the last step, in order
  calls,        \* listener invocations of the last step, in order
  uncaught,     \* whether the last step let an exception out to its caller
  ranAll,       \* ids of the releases every registered release listener was run for
  lastButton,   \* the most recent press or release passed to emit(), if any
  inputStream,  \* the input transport: isTTY, isRaw, readableEncoding, flowing,
                \* dataHandlers (how many times handleEvent is attached to 'data')
  previousRawMode,  \* Mouse.previousRawMode
  previousEncoding, \* Mouse.previousEncoding
  written,      \* the control strings the last step wrote to the output transport
  failed,       \* the transport call that threw in the last step ("none": none did)
  thrown        \* what the last step threw to its caller (Null: nothing)

vars == <<enabled, lastPress, listeners, tickQueue, subs, aborted, abortListeners, abortedAt,
          lastYield,
          nextId, chunk, op, emitted, calls, uncaught, ranAll, lastButton,
          inputStream, previousRawMode, previousEncoding, written, failed, thrown>>

\* --------------------------------------------------- subscription closures
\* queue .. rejectNext are the generator's locals.  pc is where its body stands,
\* settled what its awaited promise was settled with, result what the last
\* next() gave the consumer; arrived lists the values that reached the handler
\* while no pull was suspended and that are later than the last one yielded;
\* bornAborted tells whether the signal was already aborted at the call.
NoSub ==
  [pc |-> "none", kind |-> "none", type |-> "none", latestOnly |-> FALSE,
   maxQueue |-> 0, signal |-> FALSE, queue |-> <<>>, errorQueue |-> <<>>,
   latest |-> Null, resolveNext |-> FALSE, rejectNext |-> FALSE,
   settled |-> Null, result |-> Null, arrived |-> <<>>, bornAborted |-> FALSE]

\* const finalMaxQueue = Math.min(maxQueue, 1000); stream() uses maxQueue as given.
finalMaxQueue(s) ==
  IF s.kind = "eventsOf" THEN Min(s.maxQueue, QueueCeiling) ELSE s.maxQueue

\* Array.prototype.shift(): removes the first element, a no-op on [].
shift(q) == IF Len(q) = 0 THEN q ELSE Tail(q)

\* The value a subscription's handler passes on: the event, or {type, event}.
wrapped(s, type, ev) ==
  IF s.kind = "stream" THEN [type |-> type, event |-> ev] ELSE ev

\* handler with the overflow check left out: the queue only grows.
handlerNoShift(s, type, ev) ==
  IF s.resolveNext
    THEN [s EXCEPT !.settled = wrapped(s, type, ev), !.pc = "resolved",
                   !.resolveNext = FALSE, !.rejectNext = FALSE, !.latest = Null]
    ELSE IF s.latestOnly
      THEN [s EXCEPT !.latest = wrapped(s, type, ev),
                     !.arrived = Append(@, wrapped(s, type, ev))]
      ELSE [s EXCEPT !.queue = Append(@, wrapped(s, type, ev)),
                     !.arrived = Append(@, wrapped(s, type, ev))]

\* handler with the new value put at the head of the queue instead of its end.
handlerUnshift(s, type, ev) ==
  IF s.resolveNext
    THEN [s EXCEPT !.settled = wrapped(s, type, ev), !.pc = "resolved",
                   !.resolveNext = FALSE, !.rejectNext = FALSE, !.latest = Null]
    ELSE IF s.latestOnly
      THEN [s EXCEPT !.latest = wrapped(s, type, ev),
                     !.arrived = Append(@, wrapped(s, type, ev))]
      ELSE [s EXCEPT !.queue =
              <<wrapped(s, type, ev)>> \o
                (IF Len(@) >= finalMaxQueue(s) THEN shift(@) ELSE @),
                     !.arrived = Append(@, wrapped(s, type, ev))]

\* handler whose latest slot keeps the first pending value instead of the newest.
handlerKeepFirst(s, type, ev) ==
  IF s.resolveNext
    THEN [s EXCEPT !.settled = wrapped(s, type, ev), !.pc = "resolved",
                   !.resolveNext = FALSE, !.rejectNext = FALSE, !.latest = Null]
    ELSE IF s.latestOnly
      THEN [s EXCEPT !.latest = IF @ = Null THEN wrapped(s, type, ev) ELSE @,
                     !.arrived = Append(@, wrapped(s, type, ev))]
      ELSE [s EXCEPT !.queue =
              Append(IF Len(@) >= finalMaxQueue(s) THEN shift(@) ELSE @,
                     wrapped(s, type, ev)),
                     !.arrived = Append(@, wrapped(s, type, ev))]

\* handler that keeps nothing in a queue whose capacity is not positive.
handlerNoFloor(s, type, ev) ==
  IF s.resolveNext
    THEN [s EXCEPT !.settled = wrapped(s, type, ev), !.pc = "resolved",
                   !.resolveNext = FALSE, !.rejectNext = FALSE, !.latest = Null]
    ELSE IF s.latestOnly
      THEN [s EXCEPT !.latest = wrapped(s, type, ev),
                     !.arrived = Append(@, wrapped(s, type, ev))]
      ELSE [s EXCEPT !.queue =
              IF finalMaxQueue(s) <= 0 THEN <<>>
              ELSE Append(IF Len(@) >= finalMaxQueue(s) THEN shift(@) ELSE @,
                          wrapped(s, type, ev)),
                     !.arrived = Append(@, wrapped(s, type, ev))]

\* handler that resolves the suspended pull and queues the value as well.
handlerAlsoQueues(s, type, ev) ==
  IF s.resolveNext
    THEN [s EXCEPT !.settled = wrapped(s, type, ev), !.pc = "resolved",
                   !.resolveNext = FALSE, !.rejectNext = FALSE, !.latest = Null,
                   !.queue = Append(@, wrapped(s, type, ev))]
    ELSE IF s.latestOnly
      THEN [s EXCEPT !.latest = wrapped(s, type, ev),
                     !.arrived = Append(@, wrapped(s, type, ev))]
      ELSE [s EXCEPT !.queue =
              Append(IF Len(@) >= finalMaxQueue(s) THEN shift(@) ELSE @,
                     wrapped(s, type, ev)),
                     !.arrived = Append(@, wrapped(s, type, ev))]

handler(s, type, ev) ==
  IF s.resolveNext
    THEN [s EXCEPT !.settled = wrapped(s, type, ev), !.pc = "resolved",
                   !.resolveNext = FALSE, !.rejectNext = FALSE, !.latest = Null]
    ELSE IF s.latestOnly
      THEN [s EXCEPT !.latest = wrapped(s, type, ev),
                     !.arrived = Append(@, wrapped(s, type, ev))]
      ELSE [s EXCEPT !.queue =
              Append(IF Len(@) >= finalMaxQueue(s) THEN shift(@) ELSE @,
                     wrapped(s, type, ev)),
                     !.arrived = Append(@, wrapped(s, type, ev))]

\* rejectOrRecord that clears rejectNext alone when it rejects.
rejectOrRecordKeepsResolve(s, err) ==
  IF s.rejectNext
    THEN [s EXCEPT !.settled = err, !.pc = "rejected", !.rejectNext = FALSE]
    ELSE [s EXCEPT !.errorQueue = Append(@, err)]

\* errorHandler and abortHandler share this tail: reject the suspended pull,
\* or record the error for the next pull.
rejectOrRecord(s, err) ==
  IF s.rejectNext
    THEN [s EXCEPT !.settled = err, !.pc = "rejected",
                   !.resolveNext = FALSE, !.rejectNext = FALSE]
    ELSE [s EXCEPT !.errorQueue = Append(@, err)]

errorHandler(s, err) == rejectOrRecord(s, StreamError(err))

\* abortHandler that only records the abort, leaving a suspended pull pending.
abortHandlerRecordOnly(s) == [s EXCEPT !.errorQueue = Append(@, AbortedMouseError)]

abortHandler(s) == rejectOrRecord(s, AbortedMouseError)

\* ---------------------------------------------------------- ansiParser.ts
\* A string is a sequence of UTF-16 code units; positions are counted from 0 as
\* in the source.
ESC == 27
LBracket == 91
Less == 60
UpperM == 77
LowerM == 109
Semicolon == 59
Zero == 48
Space == 32
Plus == 43
Minus == 45
\* The offset of the legacy form's payload bytes.
ByteOffset == 32

NaN == [nan |-> TRUE, value |-> 0]
Num(n) == [nan |-> FALSE, value |-> n]

length(data) == Len(data)
\* data[i] / data.charCodeAt(i); -1 stands for undefined.
At(data, i) == IF i >= 0 /\ i < Len(data) THEN data[i + 1] ELSE -1

\* data.indexOf(ch, from)
indexOf(data, ch, from) ==
  LET hits == {i \in Max(from, 0)..(Len(data) - 1) : data[i + 1] = ch}
  IN IF hits = {} THEN -1 ELSE CHOOSE i \in hits : \A j \in hits : i <= j

\* data.indexOf('\x1b[', from)
indexOfIntroducer(data, from) ==
  LET hits == {i \in Max(from, 0)..(Len(data) - 2) :
                 data[i + 1] = ESC /\ data[i + 2] = LBracket}
  IN IF hits = {} THEN -1 ELSE CHOOSE i \in hits : \A j \in hits : i <= j

\* data.substring(a, b) for 0 <= a, b
substring(data, a, b) ==
  LET lo == Min(Min(a, b), Len(data))
      hi == Min(Max(a, b), Len(data))
  IN SubSeq(data, lo + 1, hi)

\* sequence.split(';')
RECURSIVE split(_, _)
split(s, sep) ==
  LET k == indexOf(s, sep, 0)
  IN IF k = -1 THEN <<s>>
     ELSE <<substring(s, 0, k)>> \o split(substring(s, k + 1, Len(s)), sep)

IsDigit(c) == c >= Zero /\ c <= Zero + 9

RECURSIVE DigitsValue(_, _)
DigitsValue(s, acc) ==
  IF Len(s) = 0 \/ ~IsDigit(Head(s)) THEN acc
  ELSE DigitsValue(Tail(s), 10 * acc + (Head(s) - Zero))

RECURSIVE TrimStart(_)
TrimStart(s) == IF Len(s) > 0 /\ Head(s) = Space THEN TrimStart(Tail(s)) ELSE s

\* parseInt(s, 10): leading white space, an optional sign, then the longest run
\* of decimal digits; NaN when that run is empty.
parseInt(s) ==
  LET u == TrimStart(s)
      neg == Len(u) > 0 /\ Head(u) = Minus
      v == IF Len(u) > 0 /\ Head(u) \in {Plus, Minus} THEN Tail(u) ELSE u
  IN IF Len(v) = 0 \/ ~IsDigit(Head(v)) THEN NaN
     ELSE Num(IF neg THEN 0 - DigitsValue(v, 0) ELSE DigitsValue(v, 0))

\* Bit k (0..7) of a code, in two's complement for a negative one.
Bit(code, k) == ((code % 256) \div (2 ^ k)) % 2
\* code & mask for a mask below 256.
BitAnd(code, mask) ==
  Bit(code, 0) * Bit(mask, 0) + 2 * Bit(code, 1) * Bit(mask, 1)
    + 4 * Bit(code, 2) * Bit(mask, 2) + 8 * Bit(code, 3) * Bit(mask, 3)
    + 16 * Bit(code, 4) * Bit(mask, 4) + 32 * Bit(code, 5) * Bit(mask, 5)
    + 64 * Bit(code, 6) * Bit(mask, 6) + 128 * Bit(code, 7) * Bit(mask, 7)

\* button.startsWith('wheel-')
IsWheel(button) == button \in {"wheel-up", "wheel-down", "wheel-left", "wheel-right"}

decodeSGRButton(code) ==
  LET buttonCode == BitAnd(code, 127)
      motion == BitAnd(code, 32) # 0
      button == CASE buttonCode = 0 -> "left"
                  [] buttonCode = 1 -> "middle"
                  [] buttonCode = 2 -> "right"
                  [] buttonCode = 3 -> "none"
                  [] buttonCode = 64 -> "wheel-up"
                  [] buttonCode = 65 -> "wheel-down"
                  [] buttonCode = 66 -> "wheel-left"
                  [] buttonCode = 67 -> "wheel-right"
                  [] buttonCode = 128 -> "back"
                  [] buttonCode = 129 -> "forward"
                  [] OTHER -> "unknown"
      action == IF motion THEN (IF button = "none" THEN "move" ELSE "drag")
                ELSE IF IsWheel(button) THEN "wheel"
                ELSE "press"
  IN [button |-> button, action |-> action]

decodeESCButton(code) ==
  LET motion == BitAnd(code, 32) # 0
      button == IF BitAnd(code, 64) # 0
                  THEN (IF BitAnd(code, 1) = 0 THEN "wheel-up" ELSE "wheel-down")
                  ELSE CASE BitAnd(code, 3) = 0 -> "left"
                         [] BitAnd(code, 3) = 1 -> "middle"
                         [] BitAnd(code, 3) = 2 -> "right"
                         [] BitAnd(code, 3) = 3 -> "none"
                         [] OTHER -> "unknown"
      action == IF motion THEN (IF button = "none" THEN "move" ELSE "drag")
                ELSE IF BitAnd(code, 3) = 3 THEN "release"
                ELSE IF IsWheel(button) THEN "wheel" ELSE "press"
  IN [button |-> button, action |-> action]

\* The pair [event, nextIndex] the two sequence parsers return.
Parsed(event, n) == [event |-> event, nextIndex |-> n]

parseSGRMouseEvent(data, start) ==
  LET endM == indexOf(data, UpperM, start + 3)
      endm == indexOf(data, LowerM, start + 3)
      isRelease == endm # -1 /\ (endM = -1 \/ ~(endM < endm))
      end == IF endM # -1 /\ endm # -1 THEN (IF endM < endm THEN endM ELSE endm)
             ELSE IF endM # -1 THEN endM
             ELSE endm
  IN IF end = -1
       THEN Parsed(Null, start + 1)
       ELSE LET sequence == substring(data, start + 3, end)
                parts == split(sequence, Semicolon)
            IN IF Len(parts) < 3
                 THEN Parsed(Null, end + 1)
                 ELSE LET b == parseInt(parts[1])
                          x == parseInt(parts[2])
                          y == parseInt(parts[3])
                      IN IF b.nan \/ x.nan \/ y.nan
                           THEN Parsed(Null, end + 1)
                           ELSE LET d == decodeSGRButton(b.value)
                                IN Parsed(
                                     [protocol |-> "SGR", x |-> x.value, y |-> y.value,
                                      button |-> d.button,
                                      action |-> IF isRelease THEN "release" ELSE d.action,
                                      shift |-> BitAnd(b.value, 4) # 0,
                                      alt |-> BitAnd(b.value, 8) # 0,
                                      ctrl |-> BitAnd(b.value, 16) # 0,
                                      raw |-> b.value,
                                      data |-> Append(sequence,
                                                 IF isRelease THEN LowerM ELSE UpperM)],
                                     end + 1)

\* parseESCMouseEvent without its length check.
parseESCUnchecked(data, start) ==
  LET cb == At(data, start + 3) - ByteOffset
      cx == At(data, start + 4) - ByteOffset
      cy == At(data, start + 5) - ByteOffset
      d == decodeESCButton(cb)
  IN Parsed(
       [protocol |-> "ESC", x |-> cx, y |-> cy, button |-> d.button,
        action |-> d.action,
        shift |-> BitAnd(cb, 4) # 0, alt |-> BitAnd(cb, 8) # 0,
        ctrl |-> BitAnd(cb, 16) # 0, raw |-> cb,
        data |-> substring(data, start + 3, start + 6)],
       start + 6)

parseESCMouseEvent(data, start) ==
  IF start + 5 >= length(data)
    THEN Parsed(Null, length(data))
    ELSE LET cb == At(data, start + 3) - ByteOffset
             cx == At(data, start + 4) - ByteOffset
             cy == At(data, start + 5) - ByteOffset
             d == decodeESCButton(cb)
         IN Parsed(
              [protocol |-> "ESC", x |-> cx, y |-> cy, button |-> d.button,
               action |-> d.action,
               shift |-> BitAnd(cb, 4) # 0, alt |-> BitAnd(cb, 8) # 0,
               ctrl |-> BitAnd(cb, 16) # 0, raw |-> cb,
               data |-> substring(data, start + 3, start + 6)],
              start + 6)

\* The while loop leaving at the first introducer of another kind instead of
\* skipping it.
RECURSIVE scanBreaks(_, _)
scanBreaks(data, i) ==
  IF ~(i < length(data)) THEN <<>>
  ELSE LET escIndex == indexOfIntroducer(data, i)
       IN IF escIndex = -1 THEN <<>>
          ELSE IF At(data, escIndex + 2) \notin {Less, UpperM} THEN <<>>
          ELSE LET r == IF At(data, escIndex + 2) = Less
                          THEN parseSGRMouseEvent(data, escIndex)
                        ELSE parseESCMouseEvent(data, escIndex)
               IN (IF r.event # Null THEN <<r.event>> ELSE <<>>)
                    \o scanBreaks(data, r.nextIndex)

\* The loop body with the unrecognized branch leaving the index where the
\* introducer was found.
iterationStuck(data, i) ==
  LET escIndex == indexOfIntroducer(data, i)
  IN IF escIndex = -1
       THEN [from |-> i, escIndex |-> -1, event |-> Null, nextIndex |-> i]
       ELSE LET r == IF At(data, escIndex + 2) = Less
                       THEN parseSGRMouseEvent(data, escIndex)
                     ELSE IF At(data, escIndex + 2) = UpperM
                       THEN parseESCMouseEvent(data, escIndex)
                     ELSE Parsed(Null, escIndex)
            IN [from |-> i, escIndex |-> escIndex, event |-> r.event,
                nextIndex |-> r.nextIndex]

\* One pass through the body of the while loop entered with index i:
\* escIndex = -1 is the break.
iteration(data, i) ==
  LET escIndex == indexOfIntroducer(data, i)
  IN IF escIndex = -1
       THEN [from |-> i, escIndex |-> -1, event |-> Null, nextIndex |-> i]
       ELSE LET r == IF At(data, escIndex + 2) = Less
                       THEN parseSGRMouseEvent(data, escIndex)
                     ELSE IF At(data, escIndex + 2) = UpperM
                       THEN parseESCMouseEvent(data, escIndex)
                     ELSE Parsed(Null, escIndex + 1)
            IN [from |-> i, escIndex |-> escIndex, event |-> r.event,
                nextIndex |-> r.nextIndex]

\* The passes of the while loop from index i, the break excluded.  The
\* evaluation follows at most `passes` of them: an index that moves forward
\* on every pass leaves room for length(data) passes and no more.
RECURSIVE loop(_, _, _)
loop(data, i, passes) ==
  IF ~(i < length(data)) \/ passes = 0 THEN <<>>
  ELSE LET it == iteration(data, i)
       IN IF it.escIndex = -1 THEN <<>>
          ELSE <<it>> \o loop(data, it.nextIndex, passes - 1)

\* The while loop of parseMouseEvents from position i: the events it yields.
RECURSIVE scan(_, _)
scan(data, i) ==
  IF ~(i < length(data)) THEN <<>>
  ELSE LET escIndex == indexOfIntroducer(data, i)
       IN IF escIndex = -1 THEN <<>>
          ELSE LET r == IF At(data, escIndex + 2) = Less
                          THEN parseSGRMouseEvent(data, escIndex)
                        ELSE IF At(data, escIndex + 2) = UpperM
                          THEN parseESCMouseEvent(data, escIndex)
                        ELSE Parsed(Null, escIndex + 1)
               IN (IF r.event # Null THEN <<r.event>> ELSE <<>>)
                    \o scan(data, r.nextIndex)

parseMouseEvents(data) == scan(data, 0)

\* ------------------------------------------------------------ EventEmitter
\* The part of the state one synchronous call chain reads and writes.
Machine ==
  [lastPress |-> lastPress, subs |-> subs, tickQueue |-> tickQueue,
   emitted |-> <<>>, calls |-> <<>>, threw |-> FALSE, err |-> Null]

CallListener(m, l, ch, arg) ==
  LET m1 == [m EXCEPT !.calls = Append(@, [l |-> l, ch |-> ch, arg |-> arg])]
  IN CASE l[1] = "plain" ->
            IF l[2] \in Throwers
              THEN [m1 EXCEPT !.threw = TRUE, !.err = HandlerError]
              ELSE m1
       [] l[1] = "handler" ->
            [m1 EXCEPT !.subs[l[2]] = handler(@, ch, arg)]
       [] l[1] = "errorHandler" ->
            [m1 EXCEPT !.subs[l[2]] = errorHandler(@, arg)]

\* emit() calls the listeners of a copy of the list, in registration order;
\* the first one that throws ends the call with that exception.
\* EmitFrom as a point-to-point queue: the listener that resolves a suspended
\* pull consumes the event, and the listeners after it are not called.
RECURSIVE EmitFromStealing(_, _, _, _, _)
EmitFromStealing(m, ls, i, ch, arg) ==
  IF i > Len(ls) \/ m.threw
    THEN m
    ELSE LET m1 == CallListener(m, ls[i], ch, arg)
         IN IF ls[i][1] = "handler" /\ m.subs[ls[i][2]].resolveNext
              THEN m1
              ELSE EmitFromStealing(m1, ls, i + 1, ch, arg)

RECURSIVE EmitFrom(_, _, _, _, _)
EmitFrom(m, ls, i, ch, arg) ==
  IF i > Len(ls) \/ m.threw
    THEN m
    ELSE EmitFrom(CallListener(m, ls[i], ch, arg), ls, i + 1, ch, arg)

\* emit() that returns false on a channel without listeners, 'error' included.
emitDropsError(m, ch, arg) ==
  EmitFrom([m EXCEPT !.emitted = Append(@, [ch |-> ch, arg |-> arg])],
           listeners[ch], 1, ch, arg)

\* emit('error', err) with no listener throws err.
emit(m, ch, arg) ==
  LET m1 == [m EXCEPT !.emitted = Append(@, [ch |-> ch, arg |-> arg])]
  IN IF ch = "error" /\ Len(listeners[ch]) = 0
       THEN [m1 EXCEPT !.threw = TRUE, !.err = arg]
       ELSE EmitFrom(m1, listeners[ch], 1, ch, arg)

\* ------------------------------------------------------- Mouse.handleEvent
\* Chebyshev test of the release against the remembered press.
isClick(event, press) ==
  Abs(event.x - press.x) <= 1 /\ Abs(event.y - press.y) <= 1

\* synthesize with the click emitted inside the dispatch call instead of deferred.
synthesizeInline(m, event) ==
  IF event.action = "press"
    THEN [m EXCEPT !.lastPress = event]
    ELSE IF event.action = "release"
      THEN LET m1 == IF m.lastPress # Null /\ isClick(event, m.lastPress)
                       THEN emit(m, "click", [event EXCEPT !.action = "click"])
                       ELSE m
           IN [m1 EXCEPT !.lastPress = Null]
      ELSE m

\* The body of the for loop after the emit: PressMemory and click synthesis.
synthesize(m, event) ==
  IF event.action = "press"
    THEN [m EXCEPT !.lastPress = event]
    ELSE IF event.action = "release"
      THEN [m EXCEPT
              !.tickQueue =
                IF m.lastPress # Null /\ isClick(event, m.lastPress)
                  THEN Append(@, [event EXCEPT !.action = "click"])
                  ELSE @,
              !.lastPress = Null]
      ELSE m

RECURSIVE handleLoop(_, _, _)
handleLoop(m, events, i) ==
  IF i > Len(events)
    THEN m
    ELSE LET m1 == emit(m, events[i].action, events[i])
         IN IF m1.threw
              THEN m1
              ELSE handleLoop(synthesize(m1, events[i]), events, i + 1)

\* handleEvent without its catch block: the exception leaves the handler.
handleEventNoCatch(m, events) == handleLoop(m, events, 1)

handleEvent(m, events) ==
  LET m1 == handleLoop(m, events, 1)
  IN IF m1.threw
       THEN emit([m1 EXCEPT !.threw = FALSE], "error", m1.err)
       ELSE m1

\* Whether listener l was run on channel ch with arg in the call chain m.
Ran(m, l, ch, arg) ==
  \E k \in 1..Len(m.calls) :
    m.calls[k].l = l /\ m.calls[k].ch = ch /\ m.calls[k].arg = arg

\* The releases of the call chain m that reached every registered release listener.
ReleasesRun(m) ==
  {m.emitted[i].arg.id : i \in
     {j \in 1..Len(m.emitted) :
        /\ m.emitted[j].ch = "release"
        /\ \A n \in 1..Len(listeners["release"]) :
             Ran(m, listeners["release"][n], "release", m.emitted[j].arg)}}

\* The last press or release among the emit() calls em, else the earlier one.
LastButton(em, before) ==
  LET at == {i \in 1..Len(em) : em[i].ch \in {"press", "release"}}
  IN IF at = {} THEN before
     ELSE em[CHOOSE i \in at : \A j \in at : j <= i].arg

\* Write a call chain's result back.
Commit(m, name) ==
  /\ lastPress' = m.lastPress
  /\ subs' = m.subs
  /\ tickQueue' = m.tickQueue
  /\ emitted' = m.emitted
  /\ calls' = m.calls
  /\ uncaught' = m.threw
  /\ ranAll' = ranAll \cup ReleasesRun(m)
  /\ lastButton' = LastButton(m.emitted, lastButton)
  /\ op' = name

\* A step that calls neither transport and throws nothing to its caller.
Idle ==
  /\ written' = <<>>
  /\ failed' = "none"
  /\ thrown' = Null
  /\ UNCHANGED <<inputStream, previousRawMode, previousEncoding>>

\* A step that ran the call chain m: it calls neither transport, and what the
\* chain let out is thrown to the caller of the step.
Outcome(m) ==
  /\ written' = <<>>
  /\ failed' = "none"
  /\ thrown' = IF m.threw THEN m.err ELSE Null
  /\ UNCHANGED <<inputStream, previousRawMode, previousEncoding>>

\* A step that runs no listener.
Quiet(name) ==
  /\ op' = name
  /\ chunk' = <<>>
  /\ Idle
  /\ emitted' = <<>>
  /\ calls' = <<>>
  /\ uncaught' = FALSE

\* ---------------------------------------------------------------- actions
\* new Mouse(stream, output, emitter)
New(input) ==
  /\ inputStream = input
  /\ previousRawMode = Null
  /\ previousEncoding = Null
  /\ written = <<>>
  /\ failed = "none"
  /\ thrown = Null
  /\ enabled = FALSE
  /\ lastPress = Null
  /\ listeners = [ch \in Channels |-> <<>>]
  /\ tickQueue = <<>>
  /\ subs = [s \in Subs |-> NoSub]
  /\ aborted = [s \in Subs |-> FALSE]
  /\ abortListeners = {}
  /\ abortedAt = [s \in Subs |-> 0]
  /\ lastYield = [s \in Subs |-> 0]
  /\ nextId = 0
  /\ chunk = <<>>
  /\ op = "new"
  /\ emitted = <<>>
  /\ calls = <<>>
  /\ uncaught = FALSE
  /\ ranAll = {}
  /\ lastButton = Null

\* A value that is not null, where null is possible.
Some(v) == [value |-> v]

\* A terminal input not yet in raw mode, with no encoding set and no reader.
TTY ==
  [isTTY |-> TRUE, isRaw |-> FALSE, readableEncoding |-> Null, flowing |-> FALSE,
   dataHandlers |-> 0]

Init == New(TTY)

Registered(l) == \E ch \in Channels : \E i \in 1..Len(listeners[ch]) : listeners[ch][i] = l

\* mouse.on(event, listener)
on(p, ch) ==
  /\ ~Registered(Plain(p))
  /\ listeners' = [listeners EXCEPT ![ch] = Append(@, Plain(p))]
  /\ Quiet("on")
  /\ UNCHANGED <<enabled, lastPress, tickQueue, subs, aborted, abortedAt, abortListeners, nextId, ranAll, lastButton, lastYield>>

\* The transport calls of enable() and of disable(), in the order made.
EnableCalls == <<"write", "setRawMode", "setEncoding", "resume", "on">>
DisableCalls == <<"off", "pause", "setRawMode", "setEncoding", "write">>
NoFault == "none"
EnableFaults == {NoFault} \cup {EnableCalls[i] : i \in 1..Len(EnableCalls)}
DisableFaults == {NoFault} \cup {DisableCalls[i] : i \in 1..Len(DisableCalls)}

\* Where a call stands in the order (0: not one of them).
Position(order, call) ==
  IF \E i \in 1..Len(order) : order[i] = call
    THEN CHOOSE i \in 1..Len(order) : order[i] = call
    ELSE 0

\* The call returned: it comes before the one that throws, if any does.
Returned(order, call, fault) ==
  fault = NoFault \/ Position(order, call) < Position(order, fault)

\* The Error a failing transport call throws.
TransportError(call) == [name |-> "Error", message |-> <<call, " failed">>]
NotTTYError ==
  [name |-> "Error", message |-> <<"Mouse events require a TTY input stream">>]
\* new MouseError(`${what}: ${err.message}`, err)
MouseError(what, err) ==
  [name |-> "MouseError", message |-> <<what, ": ">> \o err.message, cause |-> err]

\* A step of enable(), disable() or destroy(): no event is decoded.
Lifecycle(name) ==
  /\ op' = name
  /\ chunk' = <<>>
  /\ calls' = <<>>
  /\ uncaught' = (thrown' # Null)
  /\ UNCHANGED <<lastPress, tickQueue, subs, aborted, abortedAt, abortListeners, nextId,
                 ranAll, lastButton, lastYield>>

\* enable() with a catch block that rethrows without resetting enabled.
enableNoReset(fault) ==
  /\ emitted' = <<>>
  /\ UNCHANGED listeners
  /\ IF enabled
       THEN /\ written' = <<>>
            /\ failed' = NoFault
            /\ thrown' = Null
            /\ UNCHANGED <<enabled, inputStream, previousRawMode, previousEncoding>>
     ELSE IF ~inputStream.isTTY
       THEN /\ written' = <<>>
            /\ failed' = NoFault
            /\ thrown' = NotTTYError
            /\ UNCHANGED <<enabled, inputStream, previousRawMode, previousEncoding>>
     ELSE /\ (Returned(EnableCalls, "on", fault) => inputStream.dataHandlers < MaxHandlers)
          /\ previousRawMode' = Some(inputStream.isRaw)
          /\ previousEncoding' = inputStream.readableEncoding
          /\ written' = IF Returned(EnableCalls, "write", fault) THEN <<"on">> ELSE <<>>
          /\ inputStream' =
               [inputStream EXCEPT
                  !.isRaw = IF Returned(EnableCalls, "setRawMode", fault) THEN TRUE ELSE @,
                  !.readableEncoding =
                     IF Returned(EnableCalls, "setEncoding", fault) THEN Some("utf8") ELSE @,
                  !.flowing = IF Returned(EnableCalls, "resume", fault) THEN TRUE ELSE @,
                  !.dataHandlers = IF Returned(EnableCalls, "on", fault) THEN @ + 1 ELSE @]
          /\ enabled' = TRUE
          /\ failed' = fault
          /\ thrown' = IF fault = NoFault THEN Null
                       ELSE MouseError("Failed to enable mouse", TransportError(fault))
  /\ Lifecycle("enable")

\* mouse.enable(), the transport call `fault` throwing (NoFault: none does).
enable(fault) ==
  /\ emitted' = <<>>
  /\ UNCHANGED listeners
  /\ IF enabled
       THEN /\ written' = <<>>
            /\ failed' = NoFault
            /\ thrown' = Null
            /\ UNCHANGED <<enabled, inputStream, previousRawMode, previousEncoding>>
     ELSE IF ~inputStream.isTTY
       THEN /\ written' = <<>>
            /\ failed' = NoFault
            /\ thrown' = NotTTYError
            /\ UNCHANGED <<enabled, inputStream, previousRawMode, previousEncoding>>
     ELSE /\ (Returned(EnableCalls, "on", fault) => inputStream.dataHandlers < MaxHandlers)
          /\ previousRawMode' = Some(inputStream.isRaw)
          /\ previousEncoding' = inputStream.readableEncoding
          /\ written' = IF Returned(EnableCalls, "write", fault) THEN <<"on">> ELSE <<>>
          /\ inputStream' =
               [inputStream EXCEPT
                  !.isRaw = IF Returned(EnableCalls, "setRawMode", fault) THEN TRUE ELSE @,
                  !.readableEncoding =
                     IF Returned(EnableCalls, "setEncoding", fault) THEN Some("utf8") ELSE @,
                  !.flowing = IF Returned(EnableCalls, "resume", fault) THEN TRUE ELSE @,
                  !.dataHandlers = IF Returned(EnableCalls, "on", fault) THEN @ + 1 ELSE @]
          /\ enabled' = (fault = NoFault)
          /\ failed' = fault
          /\ thrown' = IF fault = NoFault THEN Null
                       ELSE MouseError("Failed to enable mouse", TransportError(fault))
  /\ Lifecycle("enable")

\* mouse.enable() on a disabled Mouse, no transport call throwing.
Start == ~enabled /\ enable(NoFault)

\* The body of disable() on an enabled Mouse: setRawMode and setEncoding are
\* called only with a remembered value, and a call that is not made cannot
\* throw.
disabling(fault) ==
  LET made(call) ==
        CASE call = "setRawMode" -> previousRawMode # Null
          [] call = "setEncoding" -> previousEncoding # Null
          [] OTHER -> TRUE
      thrower == IF fault # NoFault /\ made(fault) THEN fault ELSE NoFault
      done(call) == made(call) /\ Returned(DisableCalls, call, thrower)
  IN [inputStream |->
        [inputStream EXCEPT
           !.dataHandlers = IF done("off") /\ @ > 0 THEN @ - 1 ELSE @,
           !.flowing = IF done("pause") THEN FALSE ELSE @,
           !.isRaw = IF done("setRawMode") THEN previousRawMode.value ELSE @,
           !.readableEncoding = IF done("setEncoding") THEN previousEncoding ELSE @],
      written |-> IF done("write") THEN <<"off">> ELSE <<>>,
      failed |-> thrower,
      thrown |-> IF thrower = NoFault THEN Null
                 ELSE MouseError("Failed to disable mouse", TransportError(thrower))]

\* disable(): its effect on the Mouse and the transports, and what it throws.
disabled(fault) ==
  IF ~enabled
    THEN [enabled |-> enabled, inputStream |-> inputStream,
          previousRawMode |-> previousRawMode, previousEncoding |-> previousEncoding,
          written |-> <<>>, failed |-> NoFault, thrown |-> Null]
    ELSE [enabled |-> FALSE, previousRawMode |-> Null, previousEncoding |-> Null]
           @@ disabling(fault)

\* mouse.disable(), the transport call `fault` throwing (NoFault: none does).
disable(fault) ==
  LET d == disabled(fault)
  IN /\ emitted' = <<>>
     /\ UNCHANGED listeners
     /\ enabled' = d.enabled
     /\ inputStream' = d.inputStream
     /\ previousRawMode' = d.previousRawMode
     /\ previousEncoding' = d.previousEncoding
     /\ written' = d.written
     /\ failed' = d.failed
     /\ thrown' = d.thrown
     /\ Lifecycle("disable")

\* destroy() that rejects the suspended pulls before it removes the listeners.
destroySettles(fault) ==
  LET d == disabled(fault)
  IN /\ emitted' = <<>>
     /\ listeners' = IF d.thrown = Null THEN [ch \in Channels |-> <<>>] ELSE listeners
     /\ enabled' = d.enabled
     /\ inputStream' = d.inputStream
     /\ previousRawMode' = d.previousRawMode
     /\ previousEncoding' = d.previousEncoding
     /\ written' = d.written
     /\ failed' = d.failed
     /\ thrown' = d.thrown
     /\ subs' = [sid \in Subs |->
                   IF subs[sid].rejectNext THEN rejectOrRecord(subs[sid], AbortedMouseError)
                   ELSE subs[sid]]
     /\ op' = "destroy"
     /\ chunk' = <<>>
     /\ calls' = <<>>
     /\ uncaught' = (thrown' # Null)
     /\ UNCHANGED <<lastPress, tickQueue, aborted, abortedAt, abortListeners, nextId,
                    ranAll, lastButton, lastYield>>

\* mouse.destroy(): this.disable(); this.emitter.removeAllListeners()
destroy(fault) ==
  LET d == disabled(fault)
  IN /\ emitted' = <<>>
     /\ listeners' = IF d.thrown = Null THEN [ch \in Channels |-> <<>>] ELSE listeners
     /\ enabled' = d.enabled
     /\ inputStream' = d.inputStream
     /\ previousRawMode' = d.previousRawMode
     /\ previousEncoding' = d.previousEncoding
     /\ written' = d.written
     /\ failed' = d.failed
     /\ thrown' = d.thrown
     /\ Lifecycle("destroy")

\* The events parseMouseEvents yields for a chunk, numbered in arrival order.
Numbered(kinds) ==
  [i \in 1..Len(kinds) |->
     [id |-> nextId + i, action |-> kinds[i].action, x |-> kinds[i].x,
      y |-> kinds[i].y, button |-> kinds[i].button, shift |-> kinds[i].shift]]

\* inputStream emits 'data': handleEvent runs on the decoded chunk (limit bounds
\* the events of a run).
Deliver(kinds, limit) ==
  /\ enabled
  /\ nextId + Len(kinds) <= limit
  /\ nextId' = nextId + Len(kinds)
  /\ Commit(handleEvent(Machine, Numbered(kinds)), "data")
  /\ chunk' = <<>>
  /\ Outcome(handleEvent(Machine, Numbered(kinds)))
  /\ UNCHANGED <<enabled, listeners, aborted, abortedAt, abortListeners, lastYield>>

Data(kinds) == Deliver(kinds, MaxEvents)

\* The events parseMouseEvents yields for a chunk of text, numbered in arrival
\* order.
NumberedEvents(events) ==
  [i \in 1..Len(events) |-> [id |-> nextId + i] @@ events[i]]

\* What the terminal writes: a fragment is a mouse report in SGR form, one in
\* legacy form, or other text.
SGRSeq(b, x, y, terminator) ==
  [form |-> "SGR", b |-> b, x |-> x, y |-> y, terminator |-> terminator]
LegacySeq(cb, cx, cy) == [form |-> "ESC", cb |-> cb, cx |-> cx, cy |-> cy]
Text(text) == [form |-> "text", text |-> text]
\* ESC [ followed by neither '<' nor 'M'.
Unrecognized(text) == [form |-> "unrecognized", text |-> text]

\* The decimal digits of n < 1000.
Digits(n) ==
  IF n < 10 THEN <<Zero + n>>
  ELSE IF n < 100 THEN <<Zero + (n \div 10), Zero + (n % 10)>>
  ELSE <<Zero + (n \div 100), Zero + ((n \div 10) % 10), Zero + (n % 10)>>

\* ESC [ < B ; X ; Y (M|m)
SGRText(b, x, y, terminator) ==
  <<ESC, LBracket, Less>> \o Digits(b) \o <<Semicolon>> \o Digits(x)
    \o <<Semicolon>> \o Digits(y) \o <<terminator>>

\* ESC [ M cb cx cy, each value sent as value + 32
LegacyText(cb, cx, cy) ==
  <<ESC, LBracket, UpperM, cb + ByteOffset, cx + ByteOffset, cy + ByteOffset>>

TextOf(f) ==
  CASE f.form = "SGR" -> SGRText(f.b, f.x, f.y, f.terminator)
    [] f.form = "ESC" -> LegacyText(f.cb, f.cx, f.cy)
    [] OTHER -> f.text

\* ESC [ < fields M, the fields not being three decimal integers.
Malformed(fields) ==
  [form |-> "malformed", text |-> <<ESC, LBracket, Less>> \o fields \o <<UpperM>>]

\* The first n characters of a report, n short of the whole.
Truncated(f, n) == [form |-> "truncated", text |-> SubSeq(TextOf(f), 1, n)]

\* The chunk as the input stream delivers it: the fragments with no separator.
RECURSIVE Flatten(_)
Flatten(fragments) ==
  IF Len(fragments) = 0 THEN <<>>
  ELSE TextOf(Head(fragments)) \o Flatten(Tail(fragments))

\* U+FFFD, what the UTF-8 decoder writes for bytes that encode nothing.
Replacement == 65533

\* data.toString(): the bytes of the chunk decoded as UTF-8 into UTF-16 code
\* units, from byte k on.  An ill-formed sequence gives one U+FFFD for its
\* longest well-formed beginning and decoding resumes at the next byte.
RECURSIVE decodeUtf8(_, _)
decodeUtf8(bytes, k) ==
  IF k > Len(bytes) THEN <<>>
  ELSE
    LET b == bytes[k]
        Cont(j, lo, hi) == j <= Len(bytes) /\ bytes[j] >= lo /\ bytes[j] <= hi
        Low(j) == bytes[j] - 128
    IN IF b < 128 THEN <<b>> \o decodeUtf8(bytes, k + 1)
       ELSE IF b >= 194 /\ b <= 223 THEN
         IF Cont(k + 1, 128, 191)
           THEN <<(b - 192) * 64 + Low(k + 1)>> \o decodeUtf8(bytes, k + 2)
           ELSE <<Replacement>> \o decodeUtf8(bytes, k + 1)
       ELSE IF b >= 224 /\ b <= 239 THEN
         IF ~Cont(k + 1, IF b = 224 THEN 160 ELSE 128, IF b = 237 THEN 159 ELSE 191)
           THEN <<Replacement>> \o decodeUtf8(bytes, k + 1)
         ELSE IF ~Cont(k + 2, 128, 191)
           THEN <<Replacement>> \o decodeUtf8(bytes, k + 2)
         ELSE <<(b - 224) * 4096 + Low(k + 1) * 64 + Low(k + 2)>>
                \o decodeUtf8(bytes, k + 3)
       ELSE IF b >= 240 /\ b <= 244 THEN
         IF ~Cont(k + 1, IF b = 240 THEN 144 ELSE 128, IF b = 244 THEN 143 ELSE 191)
           THEN <<Replacement>> \o decodeUtf8(bytes, k + 1)
         ELSE IF ~Cont(k + 2, 128, 191)
           THEN <<Replacement>> \o decodeUtf8(bytes, k + 2)
         ELSE IF ~Cont(k + 3, 128, 191)
           THEN <<Replacement>> \o decodeUtf8(bytes, k + 3)
         ELSE LET cp == (b - 240) * 262144 + Low(k + 1) * 4096 + Low(k + 2) * 64
                          + Low(k + 3) - 65536
              IN <<55296 + (cp \div 1024), 56320 + (cp % 1024)>>
                   \o decodeUtf8(bytes, k + 4)
       ELSE <<Replacement>> \o decodeUtf8(bytes, k + 1)

toString(data) == decodeUtf8(data, 1)

\* inputStream emits 'data' with the bytes of the fragments: handleEvent
\* converts them to text, decodes and dispatches it.
Raw(fragments, limit) ==
  LET events == parseMouseEvents(toString(Flatten(fragments)))
  IN /\ enabled
     /\ nextId + Len(events) <= limit
     /\ nextId' = nextId + Len(events)
     /\ Commit(handleEvent(Machine, NumberedEvents(events)), "data")
     /\ chunk' = fragments
     /\ Outcome(handleEvent(Machine, NumberedEvents(events)))
     /\ UNCHANGED <<enabled, listeners, aborted, abortedAt, abortListeners, lastYield>>

\* The next process.nextTick callback: () => this.emitter.emit('click', clickEvent)
Tick ==
  /\ Len(tickQueue) > 0
  /\ Commit(emit([Machine EXCEPT !.tickQueue = Tail(@)], "click", Head(tickQueue)),
            "tick")
  /\ chunk' = <<>>
  /\ Outcome(emit([Machine EXCEPT !.tickQueue = Tail(@)], "click", Head(tickQueue)))
  /\ UNCHANGED <<enabled, listeners, aborted, abortedAt, abortListeners, lastYield, nextId>>

\* ------------------------------------------------- eventsOf() and stream()
\* allEvents with the synthesized click among the subscribed types.
allEventsWithClick == <<"press", "release", "drag", "wheel", "move", "click">>

\* The action types stream() subscribes to.
allEvents == <<"press", "release", "drag", "wheel", "move">>

SubChannels(s) ==
  IF s.kind = "stream" THEN {allEvents[i] : i \in 1..Len(allEvents)} ELSE {s.type}

\* this.emitter.on(type, handler) for each type, then on('error', errorHandler).
register(ls, sid) ==
  [ch \in Channels |->
     IF ch \in SubChannels(subs[sid]) THEN Append(ls[ch], Handler(sid))
     ELSE IF ch = "error" THEN Append(ls[ch], ErrorHandler(sid))
     ELSE ls[ch]]

\* unregister that detaches the action handlers but leaves the errorHandler.
unregisterKeepsError(ls, sid) ==
  [ch \in Channels |-> SelectSeq(ls[ch], LAMBDA l : l # Handler(sid))]

\* The finally block: this.emitter.off(...) for the handlers and the errorHandler.
unregister(ls, sid) ==
  [ch \in Channels |->
     SelectSeq(ls[ch], LAMBDA l : l # Handler(sid) /\ l # ErrorHandler(sid))]

Value(v) == [kind |-> "value", value |-> v]
Failure(e) == [kind |-> "error", error |-> e]
Pending == [kind |-> "pending"]
Done == [kind |-> "done"]

\* The event number of a yielded value.
IdOf(v) == IF "event" \in DOMAIN v THEN v.event.id ELSE v.id

After(vs, v) == SelectSeq(vs, LAMBDA w : IdOf(w) > IdOf(v))

\* pull with the queued events served before the recorded errors.
pullEventsFirst(s, isAborted) ==
  IF Len(s.queue) > 0
    THEN [s EXCEPT !.pc = "yielded", !.result = Value(Head(s.queue)),
                   !.queue = Tail(@), !.arrived = After(@, Head(s.queue))]
    ELSE IF s.latest # Null
      THEN [s EXCEPT !.pc = "yielded", !.result = Value(s.latest),
                     !.latest = Null, !.arrived = After(@, s.latest)]
      ELSE IF isAborted
        THEN [s EXCEPT !.pc = "done", !.result = Failure(AbortedMouseError)]
        ELSE IF Len(s.errorQueue) > 0
          THEN [s EXCEPT !.pc = "done", !.result = Failure(Head(s.errorQueue)),
                         !.errorQueue = Tail(@)]
          ELSE [s EXCEPT !.pc = "waiting", !.result = Pending,
                         !.resolveNext = TRUE, !.rejectNext = TRUE]

\* One iteration of the generator's while (true), up to its yield, await or throw.
pull(s, isAborted) ==
  IF isAborted
    THEN [s EXCEPT !.pc = "done", !.result = Failure(AbortedMouseError)]
    ELSE IF Len(s.errorQueue) > 0
      THEN [s EXCEPT !.pc = "done", !.result = Failure(Head(s.errorQueue)),
                     !.errorQueue = Tail(@)]
      ELSE IF Len(s.queue) > 0
        THEN [s EXCEPT !.pc = "yielded", !.result = Value(Head(s.queue)),
                       !.queue = Tail(@), !.arrived = After(@, Head(s.queue))]
        ELSE IF s.latest # Null
          THEN [s EXCEPT !.pc = "yielded", !.result = Value(s.latest),
                         !.latest = Null, !.arrived = After(@, s.latest)]
          ELSE [s EXCEPT !.pc = "waiting", !.result = Pending,
                         !.resolveNext = TRUE, !.rejectNext = TRUE]

\* eventsOf() whose listeners are registered by the call itself.
eventsOfEager(sid, type, latestOnly, maxQueue, signal) ==
  /\ subs[sid].pc = "none"
  /\ aborted[sid] => signal
  /\ subs' = [subs EXCEPT ![sid] =
       [NoSub EXCEPT !.pc = "created", !.kind = "eventsOf", !.type = type,
                     !.latestOnly = latestOnly, !.maxQueue = maxQueue,
                     !.signal = signal, !.bornAborted = aborted[sid]]]
  /\ listeners' = [listeners EXCEPT ![type] = Append(@, Handler(sid)),
                                     !["error"] = Append(@, ErrorHandler(sid))]
  /\ Quiet("eventsOf")
  /\ UNCHANGED <<enabled, lastPress, tickQueue, aborted, abortedAt, abortListeners,
                 nextId, ranAll, lastButton, lastYield>>

\* mouse.eventsOf(type, {latestOnly, maxQueue, signal}): the generator object is
\* made; its body has not started.
eventsOf(sid, type, latestOnly, maxQueue, signal) ==
  /\ subs[sid].pc = "none"
  /\ aborted[sid] => signal
  /\ subs' = [subs EXCEPT ![sid] =
       [NoSub EXCEPT !.pc = "created", !.kind = "eventsOf", !.type = type,
                     !.latestOnly = latestOnly, !.maxQueue = maxQueue,
                     !.signal = signal, !.bornAborted = aborted[sid]]]
  /\ Quiet("eventsOf")
  /\ UNCHANGED <<enabled, lastPress, listeners, tickQueue, aborted, abortedAt, abortListeners,
                 nextId, ranAll, lastButton, lastYield>>

\* mouse.stream({latestOnly, maxQueue, signal})
stream(sid, latestOnly, maxQueue, signal) ==
  /\ subs[sid].pc = "none"
  /\ aborted[sid] => signal
  /\ subs' = [subs EXCEPT ![sid] =
       [NoSub EXCEPT !.pc = "created", !.kind = "stream", !.type = "all",
                     !.latestOnly = latestOnly, !.maxQueue = maxQueue,
                     !.signal = signal, !.bornAborted = aborted[sid]]]
  /\ Quiet("stream")
  /\ UNCHANGED <<enabled, lastPress, listeners, tickQueue, aborted, abortedAt, abortListeners,
                 nextId, ranAll, lastButton, lastYield>>

\* next whose first pull skips the check of the signal and starts listening.
nextUnchecked(sid) ==
  LET s == subs[sid]
      isAborted == s.pc # "created" /\ s.signal /\ aborted[sid]
  IN /\ s.pc \in {"created", "yielded", "done"}
     /\ IF s.pc = "done"
          THEN /\ subs' = [subs EXCEPT ![sid].result = Done]
               /\ UNCHANGED <<listeners, abortListeners>>
          ELSE IF s.pc = "created" /\ isAborted
            THEN \* if (signal?.aborted) throw new Error(...), before any registration
                 /\ subs' = [subs EXCEPT ![sid] =
                      [s EXCEPT !.pc = "done", !.result = Failure(AbortedError)]]
                 /\ UNCHANGED <<listeners, abortListeners>>
            ELSE LET started == IF s.pc = "created" THEN register(listeners, sid)
                                                   ELSE listeners
                     s1 == pull(s, isAborted)
                 IN /\ subs' = [subs EXCEPT ![sid] = s1]
                    /\ listeners' = IF s1.pc = "done" THEN unregister(started, sid)
                                                     ELSE started
                    /\ abortListeners' =
                         IF s1.pc = "done" THEN abortListeners \ {sid}
                         ELSE IF s.signal THEN abortListeners \cup {sid}
                         ELSE abortListeners
     /\ Quiet("next")
     /\ lastYield' = [lastYield EXCEPT ![sid] =
          IF subs'[sid].pc = "yielded" THEN IdOf(subs'[sid].result.value) ELSE @]
     /\ UNCHANGED <<enabled, lastPress, tickQueue, aborted, abortedAt, nextId, ranAll,
                    lastButton>>

\* next that runs the pull loop again on a generator that has completed.
nextAgain(sid) ==
  LET s == subs[sid]
      isAborted == s.signal /\ aborted[sid]
  IN /\ s.pc \in {"created", "yielded", "done"}
     /\ IF s.pc = "created" /\ isAborted
          THEN /\ subs' = [subs EXCEPT ![sid] =
                    [s EXCEPT !.pc = "done", !.result = Failure(AbortedError)]]
               /\ UNCHANGED <<listeners, abortListeners>>
          ELSE LET started == IF s.pc = "created" THEN register(listeners, sid)
                                                 ELSE listeners
                   s1 == pull(s, isAborted)
               IN /\ subs' = [subs EXCEPT ![sid] = s1]
                  /\ listeners' = IF s1.pc = "done" THEN unregister(started, sid)
                                                   ELSE started
                  /\ abortListeners' =
                       IF s1.pc = "done" THEN abortListeners \ {sid}
                       ELSE IF s.signal THEN abortListeners \cup {sid}
                       ELSE abortListeners
     /\ Quiet("next")
     /\ lastYield' = [lastYield EXCEPT ![sid] =
          IF subs'[sid].pc = "yielded" THEN IdOf(subs'[sid].result.value) ELSE @]
     /\ UNCHANGED <<enabled, lastPress, tickQueue, aborted, abortedAt, nextId, ranAll,
                    lastButton>>

\* iterator.next() while no earlier next() is outstanding.
next(sid) ==
  LET s == subs[sid]
      isAborted == s.signal /\ aborted[sid]
  IN /\ s.pc \in {"created", "yielded", "done"}
     /\ IF s.pc = "done"
          THEN /\ subs' = [subs EXCEPT ![sid].result = Done]
               /\ UNCHANGED <<listeners, abortListeners>>
          ELSE IF s.pc = "created" /\ isAborted
            THEN \* if (signal?.aborted) throw new Error(...), before any registration
                 /\ subs' = [subs EXCEPT ![sid] =
                      [s EXCEPT !.pc = "done", !.result = Failure(AbortedError)]]
                 /\ UNCHANGED <<listeners, abortListeners>>
            ELSE LET started == IF s.pc = "created" THEN register(listeners, sid)
                                                   ELSE listeners
                     s1 == pull(s, isAborted)
                 IN /\ subs' = [subs EXCEPT ![sid] = s1]
                    /\ listeners' = IF s1.pc = "done" THEN unregister(started, sid)
                                                     ELSE started
                    /\ abortListeners' =
                         IF s1.pc = "done" THEN abortListeners \ {sid}
                         ELSE IF s.signal THEN abortListeners \cup {sid}
                         ELSE abortListeners
     /\ Quiet("next")
     /\ lastYield' = [lastYield EXCEPT ![sid] =
          IF subs'[sid].pc = "yielded" THEN IdOf(subs'[sid].result.value) ELSE @]
     /\ UNCHANGED <<enabled, lastPress, tickQueue, aborted, abortedAt, nextId, ranAll,
                    lastButton>>

\* The promise job that resumes the generator after its awaited promise settled:
\* it yields the value, or throws the error through the finally block.
resume(sid) ==
  LET s == subs[sid]
  IN /\ s.pc \in {"resolved", "rejected"}
     /\ IF s.pc = "resolved"
          THEN /\ subs' = [subs EXCEPT ![sid] =
                    [s EXCEPT !.pc = "yielded", !.result = Value(s.settled),
                              !.settled = Null]]
               /\ UNCHANGED <<listeners, abortListeners>>
          ELSE /\ subs' = [subs EXCEPT ![sid] =
                    [s EXCEPT !.pc = "done", !.result = Failure(s.settled),
                              !.settled = Null]]
               /\ listeners' = unregister(listeners, sid)
               /\ abortListeners' = abortListeners \ {sid}
     /\ Quiet("resume")
     /\ lastYield' = [lastYield EXCEPT ![sid] =
          IF subs'[sid].pc = "yielded" THEN IdOf(subs'[sid].result.value) ELSE @]
     /\ UNCHANGED <<enabled, lastPress, tickQueue, aborted, abortedAt, nextId, ranAll,
                    lastButton>>

\* iterator.return() on a generator that has not started or is suspended at a yield.
return(sid) ==
  LET s == subs[sid]
  IN /\ s.pc \in {"created", "yielded"}
     /\ subs' = [subs EXCEPT ![sid] = [s EXCEPT !.pc = "done", !.result = Done]]
     /\ listeners' = unregister(listeners, sid)
     /\ abortListeners' = abortListeners \ {sid}
     /\ Quiet("return")
     /\ UNCHANGED <<enabled, lastPress, tickQueue, aborted, abortedAt, nextId, ranAll, lastButton, lastYield>>

\* controller.abort() of the subscription's signal: the signal turns aborted and
\* its 'abort' listeners run.
abort(sid) ==
  /\ subs[sid].signal \/ subs[sid].pc = "none"
  /\ ~aborted[sid]
  /\ aborted' = [aborted EXCEPT ![sid] = TRUE]
  /\ abortedAt' = [abortedAt EXCEPT ![sid] = nextId]
  /\ IF sid \in abortListeners
       THEN /\ subs' = [subs EXCEPT ![sid] = abortHandler(@)]
            /\ calls' = <<[l |-> <<"abortHandler", sid>>, ch |-> "abort", arg |-> Null]>>
       ELSE /\ UNCHANGED subs
            /\ calls' = <<>>
  /\ op' = "abort"
  /\ chunk' = <<>>
  /\ Idle
  /\ emitted' = <<>>
  /\ uncaught' = FALSE
  /\ UNCHANGED <<enabled, lastPress, listeners, tickQueue, abortListeners, nextId,
                 ranAll, lastButton, lastYield>>

\* ----------------------------------------------------------- specifications
\* A decoded event as the parser yields it (before numbering).
Kind(action, x, y) ==
  [action |-> action, x |-> x, y |-> y, button |-> "left", shift |-> FALSE]

Chunks(kinds) == UNION {[1..n -> kinds] : n \in 1..MaxChunk}

\* The router alone: plain listeners (one of them throwing), presses and
\* releases at positions 1 cell apart on both axes, 2 cells apart on one axis,
\* and far apart.
Positions == {<<10, 20>>, <<11, 21>>, <<10, 22>>, <<15, 25>>}
RouterKinds == {Kind(a, p[1], p[2]) : a \in {"press", "release"}, p \in Positions}
\* Which listener is registered for what: a and the throwing t for presses or
\* releases, b for clicks or errors.
RouterRoles ==
  {<<"a", "press">>, <<"a", "release">>, <<"t", "press">>, <<"t", "release">>,
   <<"b", "click">>, <<"b", "error">>}

NextRouter ==
  \/ Start
  \/ \E r \in RouterRoles : on(r[1], r[2])
  \/ \E kinds \in Chunks(RouterKinds) : Data(kinds)
  \/ Tick

SpecRouter == Init /\ [][NextRouter]_vars

\* One subscription of either form over press events, with a throwing press
\* listener as the source of error-channel emissions.
StreamQueues == {1, 2}
PressKinds == {Kind("press", 10, 20)}

NextStream ==
  \/ Start
  \/ on("t", "press")
  \/ \E lo \in BOOLEAN, mq \in StreamQueues, sig \in BOOLEAN :
       eventsOf("s1", "press", lo, mq, sig)
  \/ \E lo \in BOOLEAN, mq \in StreamQueues, sig \in BOOLEAN :
       stream("s1", lo, mq, sig)
  \/ next("s1")
  \/ resume("s1")
  \/ return("s1")
  \/ abort("s1")
  \/ \E kinds \in Chunks(PressKinds) : Data(kinds)

SpecStream == Init /\ [][NextStream]_vars

\* Fan-out: an eventsOf('press') subscription, a second subscription of either
\* form, and plain press listeners, over chunks that mix presses and drags.
FanKinds == {Kind("press", 10, 20), Kind("drag", 11, 20)}

NextFan ==
  \/ Start
  \/ \E p \in {"a", "t"} : on(p, "press")
  \/ eventsOf("s1", "press", FALSE, 1, FALSE)
  \/ stream("s2", FALSE, 2, FALSE)
  \/ \E sid \in Subs : next(sid) \/ resume(sid)
  \/ \E kinds \in Chunks(FanKinds) : Data(kinds)

SpecFan == Init /\ [][NextFan]_vars

\* A queue filled past the ceiling: one subscription of either form asking for
\* maxQueue above 1000, a consumer that takes the first event and then stops
\* pulling, and single presses arriving one by one once it is listening.
CeilingQueues == {QueueCeiling + 1}

NextCeiling ==
  \/ Start
  \/ \E mq \in CeilingQueues : eventsOf("s1", "press", FALSE, mq, FALSE)
  \/ \E mq \in CeilingQueues : stream("s1", FALSE, mq, FALSE)
  \/ (lastYield["s1"] = 0 /\ next("s1"))
  \/ resume("s1")
  \/ (subs["s1"].pc \notin {"none", "created"}
        /\ Deliver(<<Kind("press", 10, 20)>>, MaxFlood))

SpecCeiling == Init /\ [][NextCeiling]_vars

\* The multiplexed stream beside click synthesis: a stream() subscription, an
\* eventsOf('click') subscription, and chunks of every decoded action, a press
\* and a release at the same cell among them.
MuxKinds ==
  {Kind(a, 10, 20) : a \in {"press", "release", "drag", "wheel", "move"}}

NextMux ==
  \/ Start
  \/ \E lo \in BOOLEAN : stream("s1", lo, 2, FALSE)
  \/ eventsOf("s2", "click", FALSE, 2, FALSE)
  \/ \E sid \in Subs : next(sid) \/ resume(sid)
  \/ \E kinds \in Chunks(MuxKinds) : Data(kinds)
  \/ Tick

SpecMux == Init /\ [][NextMux]_vars

\* The decoder over every combined code: one sequence per chunk, in SGR form
\* with either terminator or in legacy form, at cell (10,20).
Codes == 0..255

\* The codes a legacy report can carry: code + 32 is one byte.
LegacyCodes == 0..(255 - ByteOffset)

DecodeInputs ==
  {SGRSeq(c, 10, 20, term) : c \in Codes, term \in {UpperM, LowerM}}
    \cup {LegacySeq(c, 10, 20) : c \in LegacyCodes}

NextDecode ==
  \/ Start
  \/ (nextId < MaxDecoded /\ \E f \in DecodeInputs : Raw(<<f>>, MaxDecoded))

SpecDecode == Init /\ [][NextDecode]_vars

\* Concatenation: chunks of up to MaxChunk mouse reports of either form, with
\* other text (possibly none) before, between and after them.  The other text
\* is either the characters the reports are made of, or a CSI sequence of
\* another kind, a lone ESC and a bare ESC [.
Reports ==
  {SGRSeq(0, 10, 20, UpperM), SGRSeq(0, 11, 21, LowerM), LegacySeq(2, 3, 20)}

OtherTexts ==
  {Text(<<>>), Text(<<97, Less, Semicolon, Zero + 1, UpperM, LowerM>>),
   Text(<<ESC, LBracket, 65, ESC, ESC, LBracket>>)}

\* text, then n times a report followed by text.
RECURSIVE Interleaved(_)
Interleaved(n) ==
  IF n = 0 THEN {<<t>> : t \in OtherTexts}
  ELSE {c \o <<r, t>> : c \in Interleaved(n - 1), r \in Reports, t \in OtherTexts}

ConcatInputs == UNION {Interleaved(n) : n \in 0..MaxChunk}

NextConcat ==
  \/ Start
  \/ (nextId < MaxDecoded
        /\ \E fragments \in ConcatInputs : Raw(fragments, MaxDecoded + MaxChunk))

SpecConcat == Init /\ [][NextConcat]_vars

\* Fragments: chunks of an introducer of another kind, a report and the
\* beginning of a report, in that order, each present or not.
Introducers ==
  {Unrecognized(<<ESC, LBracket, 65>>), Unrecognized(<<ESC, LBracket>>),
   Unrecognized(<<ESC, LBracket, Zero + 1, Semicolon, Zero + 5, LowerM>>)}

\* From the bare introducer up to one character short of the report.
Truncations ==
  UNION {{Truncated(r, n) : n \in 3..(Len(TextOf(r)) - 1)} : r \in Reports}

Optional(S) == {<<>>} \cup {<<f>> : f \in S}

FragmentInputs ==
  {u \o r \o t : u \in Optional(Introducers), r \in Optional(Reports),
                t \in Optional(Truncations)}
    \ {<<>>}

NextFragment ==
  \/ Start
  \/ (nextId < MaxDecoded
        /\ \E fragments \in FragmentInputs : Raw(fragments, MaxDecoded))

SpecFragment == Init /\ [][NextFragment]_vars

\* Malformed fields: a terminated SGR sequence whose fields are not three
\* decimal integers, alone or with a report before it, after it, or both.
\*   "0"  ";;"  "0;10"  ";10;20"  "0;10;"  "a;10;20"  "0;10;x"  "0;1a;20"
MalformedFields ==
  {<<Zero>>, <<Semicolon, Semicolon>>,
   <<Zero, Semicolon, Zero + 1, Zero>>,
   <<Semicolon, Zero + 1, Zero, Semicolon, Zero + 2, Zero>>,
   <<Zero, Semicolon, Zero + 1, Zero, Semicolon>>,
   <<97, Semicolon, Zero + 1, Zero, Semicolon, Zero + 2, Zero>>,
   <<Zero, Semicolon, Zero + 1, Zero, Semicolon, 120>>,
   <<Zero, Semicolon, Zero + 1, 97, Semicolon, Zero + 2, Zero>>}

MalformedInputs ==
  {before \o <<Malformed(fields)>> \o after :
     before \in Optional(Reports), fields \in MalformedFields,
     after \in Optional(Reports)}

NextMalformed ==
  \/ Start
  \/ (nextId < MaxDecoded
        /\ \E fragments \in MalformedInputs :
             Raw(fragments, MaxDecoded + MaxChunk))

SpecMalformed == Init /\ [][NextMalformed]_vars

\* Every branch of the scan loop: chunks of text alone, text around one
\* report, introducers of another kind, truncated and malformed sequences.
ScanInputs ==
  Interleaved(0) \cup Interleaved(1) \cup FragmentInputs \cup MalformedInputs

NextScan ==
  \/ Start
  \/ (nextId < MaxDecoded
        /\ \E fragments \in ScanInputs : Raw(fragments, MaxDecoded + MaxChunk))

SpecScan == Init /\ [][NextScan]_vars

\* Coordinates: one report of either form per chunk, at cells from the first
\* to the last the legacy form can carry (223 = 255 - 32).
Cells == {1, 3, 10, 95, 96, 130, 162, 255 - ByteOffset}

CoordInputs ==
  {SGRSeq(0, x, y, UpperM) : x \in Cells, y \in Cells}
    \cup {LegacySeq(0, x, y) : x \in Cells, y \in Cells}

NextCoords ==
  \/ Start
  \/ (nextId < MaxDecoded /\ \E f \in CoordInputs : Raw(<<f>>, MaxDecoded))

SpecCoords == Init /\ [][NextCoords]_vars

\* Lifecycle: enable() and disable() in any order on any input stream, with
\* any one transport call of a step throwing.
Encodings == {Null, Some("utf8"), Some("latin1")}

Streams ==
  {[isTTY |-> tty, isRaw |-> raw, readableEncoding |-> enc, flowing |-> FALSE,
    dataHandlers |-> 0] : tty \in BOOLEAN, raw \in BOOLEAN, enc \in Encodings}

InitLifecycle == \E input \in Streams : New(input)

NextLifecycle ==
  \/ \E fault \in EnableFaults : enable(fault)
  \/ \E fault \in DisableFaults : disable(fault)

SpecLifecycle == InitLifecycle /\ [][NextLifecycle]_vars

\* Destroy: destroy() called on a Mouse enabled or not, with listeners and
\* subscriptions registered or not, with any one transport call throwing.
DestroyRoles == {<<"a", "press">>, <<"b", "error">>}

NextDestroy ==
  \/ Start
  \/ \E r \in DestroyRoles : on(r[1], r[2])
  \/ eventsOf("s1", "press", FALSE, 1, FALSE)
  \/ stream("s2", FALSE, 2, FALSE)
  \/ \E sid \in Subs : next(sid)
  \/ \E fault \in DisableFaults : destroy(fault)

SpecDestroy == Init /\ [][NextDestroy]_vars

\* Failure: one subscription of either form that its consumer never closes,
\* so that it completes only by a pull that fails: on an error from the
\* throwing press listener or on an abort.
NextTerminal ==
  \/ Start
  \/ on("t", "press")
  \/ \E lo \in BOOLEAN, sig \in BOOLEAN : eventsOf("s1", "press", lo, 2, sig)
  \/ \E lo \in BOOLEAN, sig \in BOOLEAN : stream("s1", lo, 2, sig)
  \/ next("s1")
  \/ resume("s1")
  \/ abort("s1")
  \/ \E kinds \in Chunks(PressKinds) : Data(kinds)

SpecTerminal == Init /\ [][NextTerminal]_vars

\* Destroy under a suspended pull: one subscription of either form, destroy()
\* with any one transport call throwing, and afterwards the Mouse enabled
\* again, a press, a throwing press listener and the signal's abort.
NextOrphan ==
  \/ Start
  \/ on("t", "press")
  \/ \E sig \in BOOLEAN : eventsOf("s1", "press", FALSE, 1, sig)
  \/ \E sig \in BOOLEAN : stream("s1", FALSE, 1, sig)
  \/ next("s1")
  \/ resume("s1")
  \/ abort("s1")
  \/ \E fault \in DisableFaults : destroy(fault)
  \/ \E kind \in PressKinds : Deliver(<<kind>>, MaxDecoded)

SpecOrphan == Init /\ [][NextOrphan]_vars

\* Motion between a press and its release: a press, drags, moves and wheel
\* turns, and releases one cell away on both axes and far away, in chunks of
\* any order; the throwing listener on releases or drags, a click listener.
FrameKinds ==
  {Kind("press", 10, 20), Kind("drag", 12, 22), Kind("move", 13, 23),
   Kind("wheel", 10, 20), Kind("release", 11, 21), Kind("release", 15, 25)}

FrameRoles == {<<"t", "release">>, <<"t", "drag">>, <<"a", "click">>}

NextFrame ==
  \/ Start
  \/ \E r \in FrameRoles : on(r[1], r[2])
  \/ \E kinds \in Chunks(FrameKinds) : Data(kinds)
  \/ Tick

SpecFrame == Init /\ [][NextFrame]_vars

\* The smallest capacities: one eventsOf() subscription asked for with a
\* maxQueue that is negative, zero, one or two, and presses arriving in chunks
\* while its consumer pulls or not.
FloorQueues == {-1, 0, 1, 2}

NextFloor ==
  \/ Start
  \/ \E mq \in FloorQueues : eventsOf("s1", "press", FALSE, mq, FALSE)
  \/ next("s1")
  \/ resume("s1")
  \/ \E kinds \in Chunks(PressKinds) : Data(kinds)

SpecFloor == Init /\ [][NextFloor]_vars

\* ------------------------------------------------------ claims: the router
RanLast(l, ch, arg) == Ran([calls |-> calls], l, ch, arg)

ThrowerRan == \E i \in 1..Len(calls) : calls[i].l[1] = "plain" /\ calls[i].l[2] \in Throwers

\* C4: every event passed to emit() during a data step reaches every listener
\* registered for its action, also when one of those listeners throws.
C4_ThrowSparesOthers ==
  op = "data" =>
    \A i \in 1..Len(emitted) :
      emitted[i].ch \in Actions =>
        \A n \in 1..Len(listeners[emitted[i].ch]) :
          RanLast(listeners[emitted[i].ch][n], emitted[i].ch, emitted[i].arg)

\* PressMemory as the router's contract defines it, folded over emit() calls:
\* a press is stored, a release clears.
RECURSIVE PressMemoryAfter(_, _, _)
PressMemoryAfter(P, em, i) ==
  IF i > Len(em) THEN P
  ELSE PressMemoryAfter(IF em[i].ch = "press" THEN em[i].arg
                        ELSE IF em[i].ch = "release" THEN Null
                        ELSE P, em, i + 1)

\* C5: a data step in which a listener throws still leaves PressMemory as the
\* dispatched events define it: a press stored, cleared by a release.
C5_ThrowKeepsPressMemory ==
  [][(op' = "data" /\ ThrowerRan') => lastPress' = PressMemoryAfter(lastPress, emitted', 1)]_vars

Chebyshev(a, b) == Max(Abs(a.x - b.x), Abs(a.y - b.y))

\* The clicks the contract asks for, folded over emit() calls from PressMemory P.
RECURSIVE ClicksOf(_, _, _)
ClicksOf(P, em, i) ==
  IF i > Len(em) THEN <<>>
  ELSE IF em[i].ch = "press" THEN ClicksOf(em[i].arg, em, i + 1)
  ELSE IF em[i].ch = "release"
    THEN (IF P # Null /\ Chebyshev(em[i].arg, P) <= 1
            THEN <<[em[i].arg EXCEPT !.action = "click"]>> ELSE <<>>)
         \o ClicksOf(Null, em, i + 1)
  ELSE ClicksOf(P, em, i + 1)

\* C6: a data step schedules a click for exactly the dispatched releases within
\* Chebyshev distance 1 of the press PressMemory holds, each click being the
\* release with its action replaced by 'click'.
C6_ClickIffNear ==
  [][op' = "data" => tickQueue' = tickQueue \o ClicksOf(lastPress, emitted', 1)]_vars

\* C7: PressMemory holds exactly the most recent unmatched press: the last press
\* or release dispatched is that press, or PressMemory is empty.
C7_MostRecentUnmatchedPress ==
  lastPress = (IF lastButton # Null /\ lastButton.action = "press" THEN lastButton ELSE Null)

\* C8: click listeners run only in a nextTick callback, never inside the data
\* handler, and only for a release that every listener registered for it has
\* already been run for.
C8_ClickDeferred ==
  /\ op = "data" => \A i \in 1..Len(emitted) : emitted[i].ch # "click"
  /\ \A i \in 1..Len(calls) :
       calls[i].ch = "click" =>
         /\ op = "tick"
         /\ calls[i].arg.action = "click"
         /\ calls[i].arg.id \in ranAll
  /\ \A i \in 1..Len(tickQueue) : tickQueue[i].id \in ranAll

\* A click reaches a click listener while a release listener is registered.
C8_Witness ==
  /\ op = "tick"
  /\ Len(calls) > 0
  /\ Len(listeners["release"]) > 0

\* ----------------------------------------------------- claims: the streams
\* The last n elements of q (all of q when it is shorter).
LastN(q, n) == SubSeq(q, Max(1, Len(q) - n + 1), Len(q))

Recorded(sid) ==
  IF subs[sid].signal /\ aborted[sid] THEN AbortedMouseError.message
  ELSE Head(subs[sid].errorQueue).message

HasRecorded(sid) ==
  (subs[sid].signal /\ aborted[sid]) \/ Len(subs[sid].errorQueue) > 0

Detached(ls, sid) ==
  \A ch \in Channels : \A i \in 1..Len(ls[ch]) :
    ls[ch][i] # Handler(sid) /\ ls[ch][i] # ErrorHandler(sid)

\* C2: a pull of a subscription that has not ended, starting with an error or an
\* abort recorded, fails with it, yields nothing, and detaches the subscription's
\* listeners; an ended subscription never yields the events it still holds.
C2_ErrorFirst ==
  [][\A sid \in Subs :
       /\ (op' = "next" /\ subs'[sid] # subs[sid] /\ subs[sid].pc # "done"
           /\ HasRecorded(sid)) =>
            /\ subs'[sid].pc = "done"
            /\ subs'[sid].result.kind = "error"
            /\ subs'[sid].result.error.message = Recorded(sid)
            /\ subs'[sid].queue = subs[sid].queue
            /\ subs'[sid].latest = subs[sid].latest
            /\ Detached(listeners', sid)
            /\ sid \notin abortListeners'
       /\ subs[sid].pc = "done" =>
            /\ subs'[sid].pc = "done"
            /\ subs'[sid].result.kind # "value"
            /\ subs'[sid].queue = subs[sid].queue
            /\ subs'[sid].latest = subs[sid].latest]_vars

\* A pull has failed while the subscription still held an event.
C2_Witness ==
  \E sid \in Subs :
    /\ op = "next"
    /\ subs[sid].pc = "done"
    /\ subs[sid].result.kind = "error"
    /\ Len(subs[sid].queue) > 0 \/ subs[sid].latest # Null

\* C3: an abort while a pull is suspended rejects that pull with 'The operation
\* was aborted.', the rejection is what the consumer gets, and no event delivered
\* after the abort is ever yielded.
C3_AbortRejectsPull ==
  [][\A sid \in Subs :
       /\ (op' = "abort" /\ aborted'[sid] /\ ~aborted[sid] /\ subs[sid].pc = "waiting") =>
            /\ subs'[sid].pc = "rejected"
            /\ subs'[sid].settled = AbortedMouseError
       /\ subs[sid].pc = "rejected" =>
            \/ /\ subs'[sid].pc = "rejected"
               /\ subs'[sid].settled = subs[sid].settled
               /\ subs'[sid].result = subs[sid].result
            \/ /\ subs'[sid].pc = "done"
               /\ subs'[sid].result = Failure(subs[sid].settled)
       /\ (subs[sid].signal /\ aborted[sid] /\ subs'[sid].result # subs[sid].result
           /\ subs'[sid].result.kind = "value") =>
            IdOf(subs'[sid].result.value) <= abortedAt[sid]]_vars

\* The aborted pull has been rejected although an event arrived after the abort.
C3_Witness ==
  \E sid \in Subs :
    /\ op = "resume"
    /\ subs[sid].pc = "done"
    /\ subs[sid].result = Failure(AbortedMouseError)
    /\ Len(subs[sid].queue) > 0 \/ subs[sid].latest # Null

\* C11: with latestOnly=true the FIFO stays empty, the latest slot holds exactly
\* the most recent arrival not yet consumed (nothing when there is none), and a
\* pull that finds a pending value yields that most recent arrival and empties
\* the slot.
C11_LatestOnlyKeepsNewest ==
  [][\A sid \in Subs :
       (subs'[sid].pc # "none" /\ subs'[sid].latestOnly) =>
         /\ subs'[sid].queue = <<>>
         /\ subs'[sid].latest =
              (IF subs'[sid].arrived = <<>> THEN Null
               ELSE subs'[sid].arrived[Len(subs'[sid].arrived)])
         /\ (op' = "next" /\ subs'[sid].pc = "yielded" /\ subs[sid].pc # "none") =>
              /\ subs[sid].arrived # <<>>
              /\ subs'[sid].result = Value(subs[sid].arrived[Len(subs[sid].arrived)])
              /\ subs'[sid].latest = Null]_vars

\* After one consumed value two arrivals came with no pull suspended: only the
\* second is held.
C11_Witness ==
  \E sid \in Subs :
    /\ subs[sid].latestOnly
    /\ lastYield[sid] = 1
    /\ Len(subs[sid].arrived) = 2
    /\ subs[sid].latest = subs[sid].arrived[2]
    /\ subs[sid].queue = <<>>

\* C12: whatever maxQueue was requested, the FIFO of an eventsOf() or stream()
\* subscription never holds more than 1000 events, and holds what a maxQueue of
\* 1000 would hold: the 1000 most recent arrivals not yet consumed.
C12_QueueCeiling ==
  \A sid \in Subs :
    (subs[sid].pc # "none" /\ ~subs[sid].latestOnly) =>
      /\ Len(subs[sid].queue) <= QueueCeiling
      /\ subs[sid].queue =
           LastN(subs[sid].arrived, Min(subs[sid].maxQueue, QueueCeiling))

\* The listeners of ls that subscription sid did not register, in their order.
Others(ls, sid) ==
  [ch \in Channels |-> SelectSeq(ls[ch], LAMBDA l : l[1] = "plain" \/ l[2] # sid)]

\* C13: the step that ends a subscription (a failed pull, a rejected pull's
\* resumption, or return()) removes every listener the subscription registered,
\* its abort handler included, and nothing else; an ended subscription has no
\* registration left.
C13_TeardownDetaches ==
  [][\A sid \in Subs :
       /\ (subs'[sid].pc = "done" /\ subs[sid].pc # "done") =>
            /\ listeners' = Others(listeners, sid)
            /\ abortListeners' = abortListeners \ {sid}
       /\ subs'[sid].pc = "done" =>
            /\ Detached(listeners', sid)
            /\ sid \notin abortListeners']_vars

\* A multiplexed subscription with a signal that had yielded an event was ended
\* by return().
C13_Witness ==
  \E sid \in Subs :
    /\ op = "return"
    /\ subs[sid].pc = "done"
    /\ subs[sid].kind = "stream"
    /\ subs[sid].signal
    /\ lastYield[sid] > 0
    /\ Len(listeners["press"]) > 0

\* C14: a subscription created with an already aborted signal registers nothing
\* when created; its first pull fails with 'The operation was aborted.' without
\* registering a listener; and it never yields an event.
C14_BornAborted ==
  [][\A sid \in Subs :
       /\ (subs[sid].pc = "none" /\ subs'[sid].pc = "created") =>
            /\ subs'[sid].bornAborted = aborted[sid]
            /\ listeners' = listeners
            /\ abortListeners' = abortListeners
       /\ (subs[sid].bornAborted /\ subs[sid].pc = "created" /\ op' = "next"
           /\ subs'[sid] # subs[sid]) =>
            /\ subs'[sid].pc = "done"
            /\ subs'[sid].result.kind = "error"
            /\ subs'[sid].result.error.message = AbortedError.message
            /\ listeners' = listeners
            /\ abortListeners' = abortListeners
       /\ subs'[sid].bornAborted =>
            /\ lastYield'[sid] = 0
            /\ subs'[sid].result # Null => subs'[sid].result.kind \in {"error", "done"}
            /\ Detached(listeners', sid)
            /\ sid \notin abortListeners']_vars

\* The first pull of a subscription born aborted has failed, with events
\* delivered before and a plain listener registered.
C14_Witness ==
  \E sid \in Subs :
    /\ op = "next"
    /\ subs[sid].bornAborted
    /\ subs[sid].pc = "done"
    /\ subs[sid].result.kind = "error"
    /\ nextId > 0
    /\ Len(listeners["press"]) > 0

\* Everything a subscription holds or has just given its consumer.
Held(s) ==
  {s.queue[i] : i \in 1..Len(s.queue)}
    \cup (IF s.latest # Null THEN {s.latest} ELSE {})
    \cup (IF s.pc = "resolved" THEN {s.settled} ELSE {})
    \cup (IF s.result # Null /\ s.result.kind = "value" THEN {s.result.value} ELSE {})

C16_ErrorSurfaced ==
  (op = "data" /\ ThrowerRan /\ Len(listeners["error"]) > 0) =>
    /\ ~uncaught
    /\ emitted[Len(emitted)] = [ch |-> "error", arg |-> HandlerError]
    /\ \A n \in 1..Len(listeners["error"]) :
         Cardinality({k \in 1..Len(calls) :
                        calls[k] = [l |-> listeners["error"][n], ch |-> "error",
                                    arg |-> HandlerError]}) = 1

\* A press listener threw while the error handlers of two subscriptions were
\* registered; one of them had a pull suspended, which the error rejected.
C16_Witness ==
  /\ op = "data" /\ ThrowerRan
  /\ Len(listeners["error"]) = 2
  /\ ~uncaught
  /\ \E sid \in Subs : subs[sid].pc = "rejected"

Active(sid) == subs[sid].pc \in {"waiting", "resolved", "rejected", "yielded"}

\* What a subscription holds of a value after its handler took it: the value
\* settled its suspended pull, or it is among the arrivals awaiting a pull.
Took(sid, v) ==
  \/ subs[sid].pc = "resolved" /\ subs[sid].settled = v
  \/ \E i \in 1..Len(subs[sid].arrived) : subs[sid].arrived[i] = v

\* C9: in a data step in which no listener throws, every dispatched event reaches
\* every listener registered for its action and every active subscription that
\* matches it, and what each subscription retains is decided by its own arrivals
\* and capacity alone.
C9_FanOut ==
  (op = "data" /\ ~ThrowerRan) =>
    \A i \in 1..Len(emitted) :
      LET ch == emitted[i].ch
          ev == emitted[i].arg
      IN /\ \A n \in 1..Len(listeners[ch]) : RanLast(listeners[ch][n], ch, ev)
         /\ \A sid \in Subs :
              (Active(sid) /\ ch \in SubChannels(subs[sid])) =>
                /\ RanLast(Handler(sid), ch, ev)
                /\ Took(sid, wrapped(subs[sid], ch, ev))
                /\ ~subs[sid].latestOnly =>
                     subs[sid].queue = LastN(subs[sid].arrived, subs[sid].maxQueue)

\* One press reached a plain listener, settled one subscription's pull and was
\* queued by the other, whose queue then overflowed on its own.
C9_Witness ==
  /\ op = "data" /\ ~ThrowerRan
  /\ \E i \in 1..Len(calls) : calls[i].l[1] = "plain"
  /\ subs["s2"].pc = "resolved"
  /\ subs["s1"].pc = "yielded"
  /\ Len(subs["s1"].arrived) > Len(subs["s1"].queue)
  /\ Len(subs["s2"].queue) > 0

\* C10: within one data step every listener is called with the chunk's events in
\* the decoder's order, and every subscription, multiplexed or not, holds and
\* yields events in that order.
C10_DecoderOrder ==
  /\ op = "data" =>
       \A i, j \in 1..Len(calls) :
         (i < j /\ calls[i].ch \in Actions /\ calls[j].ch \in Actions) =>
           /\ calls[i].arg.id <= calls[j].arg.id
           /\ calls[i].l = calls[j].l => calls[i].arg.id < calls[j].arg.id
  /\ \A sid \in Subs :
       LET s == subs[sid]
           held == (IF s.pc = "resolved" THEN <<s.settled>> ELSE <<>>) \o s.queue
       IN /\ \A i \in 1..Len(held) : IdOf(held[i]) > lastYield[sid]
          /\ \A i, j \in 1..Len(held) : i < j => IdOf(held[i]) < IdOf(held[j])
          /\ s.latest # Null => IdOf(s.latest) > lastYield[sid]
          /\ s.pc = "yielded" => IdOf(s.result.value) = lastYield[sid]

\* One chunk held a press and a drag: the multiplexed stream's suspended pull got
\* the press and its queue the drag.
C10_Witness ==
  /\ op = "data"
  /\ Len(emitted) = 2
  /\ subs["s2"].pc = "resolved"
  /\ subs["s2"].settled.type = "press"
  /\ Len(subs["s2"].queue) = 1
  /\ subs["s2"].queue[1].type = "drag"
  /\ IdOf(subs["s2"].queue[1]) = IdOf(subs["s2"].settled) + 1

\* ----------------------------------------------------- claims: the decoder
\* The combined code with bits 2, 3, 4 and 5 cleared.
ButtonBase(code) == code - BitAnd(code, 60)

\* The button-base table.
ButtonOf(base) ==
  CASE base = 0 -> "left" [] base = 1 -> "middle" [] base = 2 -> "right"
    [] base = 3 -> "none" [] base = 64 -> "wheel-up" [] base = 65 -> "wheel-down"
    [] base = 66 -> "wheel-left" [] base = 67 -> "wheel-right"
    [] base = 128 -> "back" [] base = 129 -> "forward" [] OTHER -> "unknown"

\* The events the last step decoded, as passed to emit().
Decoded == [i \in 1..Len(emitted) |-> emitted[i].arg]

\* C17: for every combined code in 0..255, in either wire form, the decoded
\* button is the button-base table applied to the code with bits 2..5 cleared.
C17_ButtonTable ==
  (op = "data" /\ chunk # <<>>) =>
    \A i \in 1..Len(Decoded) :
      Decoded[i].raw \in Codes =>
        Decoded[i].button = ButtonOf(ButtonBase(Decoded[i].raw))

\* The action the precedence rules give an event with this motion flag, button
\* and release mark.
ActionOf(motion, button, release) ==
  IF motion THEN (IF button = "none" THEN "move" ELSE "drag")
  ELSE IF IsWheel(button) THEN "wheel"
  ELSE IF release THEN "release"
  ELSE "press"

\* Whether the wire form marks the event a release: SGR terminator 'm', or
\* legacy button base 3.
ReleaseMark(e) ==
  IF e.protocol = "SGR" THEN e.data[Len(e.data)] = LowerM
  ELSE ButtonBase(e.raw) = 3

\* C18: the action of every decoded event follows the precedence motion, wheel,
\* release, press, applied to the code's motion flag, the decoded button and
\* the wire form's release mark.
C18_ActionPrecedence ==
  (op = "data" /\ chunk # <<>>) =>
    \A i \in 1..Len(Decoded) :
      Decoded[i].action =
        ActionOf(Bit(Decoded[i].raw, 5) = 1, Decoded[i].button, ReleaseMark(Decoded[i]))

\* What a report must decode to, as far as the wire text fixes it without the
\* button tables: form, coordinates, code and consumed text.
Expected(f) ==
  IF f.form = "SGR"
    THEN [protocol |-> "SGR", x |-> f.x, y |-> f.y, raw |-> f.b,
          data |-> Digits(f.b) \o <<Semicolon>> \o Digits(f.x) \o <<Semicolon>>
                     \o Digits(f.y) \o <<f.terminator>>]
    ELSE [protocol |-> "ESC", x |-> f.cx, y |-> f.cy, raw |-> f.cb,
          data |-> <<f.cb + ByteOffset, f.cx + ByteOffset, f.cy + ByteOffset>>]

Observed(e) ==
  [protocol |-> e.protocol, x |-> e.x, y |-> e.y, raw |-> e.raw, data |-> e.data]

\* The reports among the fragments, in order.
ReportsOf(fragments) == SelectSeq(fragments, LAMBDA f : f.form \in {"SGR", "ESC"})

C21_MalformedSkipped ==
  (op = "data" /\ chunk # <<>> /\ \E i \in 1..Len(chunk) : chunk[i].form = "malformed") =>
    /\ Len(emitted) = Len(ReportsOf(chunk))
    /\ \A i \in 1..Len(emitted) :
         /\ emitted[i].ch # "error"
         /\ Observed(Decoded[i]) = Expected(ReportsOf(chunk)[i])

\* What decoding derives from the code.
Meaning(e) ==
  [button |-> e.button, action |-> e.action, shift |-> e.shift, alt |-> e.alt,
   ctrl |-> e.ctrl]

\* C22: any two decoded events with the same protocol and the same raw code
\* have the same button, action and shift/alt/ctrl flags.
C22_RawDetermines ==
  (op = "data" /\ chunk # <<>>) =>
    \A i, j \in 1..Len(Decoded) :
      (Decoded[i].protocol = Decoded[j].protocol /\ Decoded[i].raw = Decoded[j].raw)
        => Meaning(Decoded[i]) = Meaning(Decoded[j])

\* The text the last step decoded.
Scanned == toString(Flatten(chunk))

\* The passes of the scan loop over it.
Passes == loop(Scanned, 0, length(Scanned))

\* The loop was left by its own condition or its break.
LoopLeft ==
  \/ Passes = <<>>
  \/ LET n == Passes[Len(Passes)].nextIndex
     IN \/ ~(n < length(Scanned))
        \/ iteration(Scanned, n).escIndex = -1

\* C23: decoding a chunk ends without a throw and with finitely many events:
\* every pass of the scan loop leaves the index further than it found it,
\* whichever branch it takes, and the loop is left; the events of the passes
\* are the events that were decoded.
C23_ScanAdvances ==
  (op = "data" /\ chunk # <<>>) =>
    /\ \A k \in 1..Len(Passes) :
         /\ Passes[k].from < Passes[k].nextIndex
         /\ Passes[k].nextIndex <= length(Scanned)
    /\ LoopLeft
    /\ Len(SelectSeq(Passes, LAMBDA it : it.event # Null)) = Len(Decoded)
    /\ ~uncaught

\* A chunk was decoded whose passes took the unrecognized branch, decoded a
\* report and met a truncated sequence.
C23_Witness ==
  /\ op = "data"
  /\ Len(chunk) = 3
  /\ chunk[1].form = "unrecognized" /\ chunk[3].form = "truncated"
  /\ Len(Passes) >= 3
  /\ Len(Decoded) = 1

\* C24: a chunk that is one report decodes to one event whose x and y are the
\* decimal second and third field (SGR) or the second and third payload byte
\* minus 32 (legacy).
C24_Coordinates ==
  (op = "data" /\ Len(chunk) = 1 /\ chunk[1].form \in {"SGR", "ESC"}) =>
    /\ Len(Decoded) = 1
    /\ chunk[1].form = "SGR" =>
         (Decoded[1].x = chunk[1].x /\ Decoded[1].y = chunk[1].y)
    /\ chunk[1].form = "ESC" =>
         /\ Decoded[1].x = TextOf(chunk[1])[5] - 32
         /\ Decoded[1].y = TextOf(chunk[1])[6] - 32

\* The lifecycle fields enable() and disable() work on.
Setup == <<enabled, inputStream, previousRawMode, previousEncoding>>

\* C25: enable() while enabled and disable() while disabled change nothing;
\* the enable string is written and the data handler attached only by a step
\* from disabled to enabled, the disable string written only by a step from
\* enabled to disabled; at most one data handler is attached, and one is
\* attached exactly when the Mouse is enabled.
C25_Idempotent ==
  [][/\ (enabled /\ op' = "enable") => (UNCHANGED Setup /\ written' = <<>>)
     /\ (~enabled /\ op' = "disable") => (UNCHANGED Setup /\ written' = <<>>)
     /\ (written' = <<"on">> \/ inputStream'.dataHandlers > inputStream.dataHandlers)
          => (~enabled /\ enabled')
     /\ written' = <<"off">> => (enabled /\ ~enabled')
     /\ inputStream'.dataHandlers <= 1
     /\ (inputStream'.dataHandlers = 1) <=> enabled']_vars

\* C26: an enable() that fails leaves the Mouse disabled and throws to its
\* caller, a plain Error when the input is not a TTY and a MouseError wrapping
\* the transport's error otherwise; nothing is thrown when it succeeds or the
\* Mouse is enabled already; a later enable() runs the setup again.
C26_EnableFailure ==
  [][op' = "enable" =>
       /\ thrown' # Null <=> (~enabled /\ ~enabled')
       /\ (~enabled /\ ~inputStream.isTTY) => thrown' = NotTTYError
       /\ (thrown' # Null /\ inputStream.isTTY) =>
            /\ thrown'.name = "MouseError"
            /\ thrown'.cause \in {TransportError(EnableCalls[i]) : i \in 1..Len(EnableCalls)}
       /\ uncaught' = (thrown' # Null)
       /\ (~enabled /\ inputStream.isTTY) =>
            (written' = <<"on">> \/ thrown' = MouseError("Failed to enable mouse",
                                                          TransportError("write")))]_vars

\* An enable() has just failed in setRawMode, after the write: the Mouse is
\* disabled and the MouseError went to the caller.
C26_Witness ==
  /\ op = "enable"
  /\ ~enabled
  /\ uncaught
  /\ thrown = MouseError("Failed to enable mouse", TransportError("setRawMode"))
  /\ written = <<"on">>

\* C27: an enable() that fails leaves the input stream's raw mode as it found
\* it and attaches no data handler, whichever call threw.
C27_NoPartialSetup ==
  [][(op' = "enable" /\ thrown' # Null) =>
       /\ inputStream'.isRaw = inputStream.isRaw
       /\ inputStream'.dataHandlers = inputStream.dataHandlers]_vars

\* C28: when a transport call throws during disable(), the failure is emitted
\* on the error channel, nothing is thrown to the caller, and the Mouse is
\* disabled afterwards.
C28_DisableFailure ==
  [][(op' = "disable" /\ failed' # NoFault) =>
       /\ \E i \in 1..Len(emitted') : emitted'[i].ch = "error"
       /\ thrown' = Null
       /\ ~enabled']_vars

\* C29: a disable() that follows a successful enable() leaves the input
\* stream's raw mode and encoding as they were before that enable(), whatever
\* they were.  (enable() remembers them in previousRawMode, previousEncoding.)
C29_Restores ==
  [][(op' = "disable" /\ enabled /\ failed' = NoFault) =>
       /\ inputStream'.isRaw = previousRawMode.value
       /\ inputStream'.readableEncoding = previousEncoding]_vars

\* C30: destroy() leaves the Mouse disabled and the emitter without any
\* listener, whatever state it is called in and whether or not a transport
\* call throws while disabling.
C30_DestroyClears ==
  [][op' = "destroy" =>
       /\ ~enabled'
       /\ \A ch \in Channels : listeners'[ch] = <<>>]_vars

\* ------------------------------------------- claims: dispatch of a chunk
\* The emit() calls of the step just taken that carry a decoded event.
Dispatched == SelectSeq(emitted', LAMBDA e : e.ch # "error")

\* C31: every decoded event of a chunk is passed to emit() once, in arrival
\* order, also when a listener throws while an earlier event of the chunk is
\* dispatched.
C31_ChunkDispatched ==
  [][op' = "data" =>
       /\ Len(Dispatched) = nextId' - nextId
       /\ \A i \in 1..Len(Dispatched) : Dispatched[i].arg.id = nextId + i]_vars

\* ------------------------------------- claims: the sequence a stream yields
\* The values a subscription has taken and not yet given to its consumer, in
\* the order it will give them: the one that settled the suspended pull, then
\* the FIFO.
Unconsumed(s) == (IF s.pc = "resolved" THEN <<s.settled>> ELSE <<>>) \o s.queue

\* A FIFO subscription whose first pull has begun and that has seen no error
\* and no abort.
Sound(s) ==
  /\ ~s.latestOnly
  /\ s.pc \in {"waiting", "resolved", "yielded"}
  /\ s.errorQueue = <<>>

\* The events of the step just taken that match the subscription, as its
\* handler passes them on.
Arrivals(sid) ==
  LET em == SelectSeq(emitted', LAMBDA e : e.ch \in SubChannels(subs[sid]))
  IN [i \in 1..Len(em) |-> wrapped(subs[sid], em[i].ch, em[i].arg)]

\* C32: for a FIFO subscription that sees no error or abort and whose
\* unconsumed events stay within its capacity, a data step appends exactly the
\* matching events it dispatched, once each and in order, to the unconsumed
\* values; a pull that yields gives the first unconsumed value and removes it;
\* no other step changes them.  The values yielded by successive pulls are
\* therefore the matching events dispatched since the first pull began.
C32_StreamSequence ==
  [][\A sid \in Subs :
       LET s == subs[sid]
           t == subs'[sid]
       IN (Sound(s) /\ Sound(t)) =>
            IF op' = "data"
              THEN Len(Unconsumed(s)) + Len(Arrivals(sid)) <= finalMaxQueue(s) =>
                     Unconsumed(t) = Unconsumed(s) \o Arrivals(sid)
            ELSE IF t.pc = "yielded" /\ t.result # s.result
              THEN /\ Unconsumed(s) # <<>>
                   /\ t.result = Value(Head(Unconsumed(s)))
                   /\ Unconsumed(t) = Tail(Unconsumed(s))
            ELSE Unconsumed(t) = Unconsumed(s)]_vars

\* A chunk of two matching events reached a subscription with a suspended
\* pull: the first settled the pull and the second was queued behind it.
C32_Witness ==
  /\ op = "data"
  /\ \E sid \in Subs :
       /\ Sound(subs[sid])
       /\ subs[sid].pc = "resolved"
       /\ Len(subs[sid].queue) = 1
       /\ IdOf(subs[sid].queue[1]) = IdOf(subs[sid].settled) + 1
       /\ lastYield[sid] > 0

\* ------------------------------------------ claims: the state of a pull
\* C33: in every state of every subscription resolveNext and rejectNext are
\* both set or both null; they are set exactly while the one outstanding pull
\* is suspended at its await, and then the FIFO, the latest slot and the error
\* queue are empty.
C33_PullState ==
  \A sid \in Subs :
    LET s == subs[sid]
    IN /\ s.resolveNext = s.rejectNext
       /\ s.resolveNext <=> s.pc = "waiting"
       /\ s.resolveNext =>
            /\ s.queue = <<>>
            /\ s.latest = Null
            /\ s.errorQueue = <<>>

\* A pull was suspended after the subscription had yielded a queued event, a
\* second chunk having overflowed its queue before.
C33_Witness ==
  /\ op = "next"
  /\ subs["s1"].pc = "waiting"
  /\ subs["s1"].resolveNext /\ subs["s1"].rejectNext
  /\ lastYield["s1"] > 1

\* ------------------------------------- claims: when a stream starts to listen
\* The subscription stores nothing.
Empty(s) ==
  /\ s.queue = <<>> /\ s.latest = Null /\ s.errorQueue = <<>> /\ s.settled = Null

\* None of the subscription's closures is registered anywhere.
Unlistened(ls, al, sid) ==
  /\ \A ch \in Channels : \A i \in 1..Len(ls[ch]) :
       ls[ch][i] \notin {Handler(sid), ErrorHandler(sid)}
  /\ sid \notin al

\* C34: between the call of eventsOf() or stream() and the first pull the
\* subscription has no listener registered, none of its closures is called by
\* any step, and it stores nothing; the first pull therefore never yields a
\* value: it suspends, or fails on a signal that is already aborted.
C34_ListensFromFirstPull ==
  [][\A sid \in Subs :
       LET s == subs[sid]
           t == subs'[sid]
       IN s.pc = "created" =>
            /\ Unlistened(listeners, abortListeners, sid) /\ Empty(s)
            /\ \A k \in 1..Len(calls') : calls'[k].l[2] # sid
            /\ t.pc \in {"created", "waiting", "done"}
            /\ Empty(t)
            /\ t.pc = "created" => Unlistened(listeners', abortListeners', sid)]_vars

\* The first pull of a subscription was suspended although events had been
\* dispatched, and a listener had thrown, between its creation and that pull.
C34_Witness ==
  /\ op = "next"
  /\ subs["s1"].pc = "waiting"
  /\ lastYield["s1"] = 0
  /\ nextId > 0
  /\ Registered(Plain("t"))

\* ------------------------------------ claims: errors reaching the streams
\* The step just taken emitted on the error channel.
ErrorEmitted == \E i \in 1..Len(emitted') : emitted'[i].ch = "error"

\* The step just taken was a disable(), alone or inside destroy(), one of
\* whose transport calls threw.
DisableFailed == op' \in {"disable", "destroy"} /\ failed' # NoFault

\* The step just taken called the subscription's handler with an event.
Served(sid) == \E k \in 1..Len(calls') : calls'[k].l = Handler(sid)

\* C35: a step that emits on the error channel, or in which disable() fails,
\* fails every active subscription of either form: a pull that is suspended
\* when the error is emitted is rejected, and a subscription without one
\* records one more error, which its next pull throws.
C35_ErrorFailsAll ==
  [][(ErrorEmitted \/ DisableFailed) =>
       \A sid \in Subs :
         LET s == subs[sid]
             t == subs'[sid]
         IN Active(sid) =>
              /\ \/ s.rejectNext /\ t.pc = "rejected" /\ t.errorQueue = s.errorQueue
                 \/ Len(t.errorQueue) = Len(s.errorQueue) + 1
              /\ (s.rejectNext /\ ~Served(sid)) => t.pc = "rejected"]_vars

\* ---------------------------------------- claims: a stream after a failure
\* C36: a subscription whose generator has completed stays completed: no step
\* calls one of its closures or registers it again, and every later pull gives
\* done, with no value and no error, whatever events, errors and aborts occur.
C36_TerminalAfterFailure ==
  [][\A sid \in Subs :
       LET s == subs[sid]
           t == subs'[sid]
       IN s.pc = "done" =>
            /\ t.pc = "done"
            /\ t.result \in {s.result, Done}
            /\ \A k \in 1..Len(calls') : calls'[k].l[2] # sid
            /\ Unlistened(listeners', abortListeners', sid)
            /\ lastYield'[sid] = lastYield[sid]]_vars

\* A pull gave done after an earlier pull had failed, a second error recorded
\* before the failure being still in the error queue, and after the signal was
\* aborted and further events were dispatched.
C36_Witness ==
  /\ op = "next"
  /\ subs["s1"].pc = "done"
  /\ subs["s1"].result = Done
  /\ Len(subs["s1"].errorQueue) > 0
  /\ aborted["s1"]
  /\ abortedAt["s1"] < nextId

\* ------------------------------------- claims: destroy and a suspended pull
\* The subscription's pull is suspended and the emitter has none of its
\* listeners: removeAllListeners() ran under it.
Orphaned(ls, sid) == subs[sid].pc = "waiting" /\ Detached(ls, sid)

\* C37: destroy() changes no subscription, so a pull suspended under it is
\* neither resolved nor rejected; once the emitter has lost the subscription's
\* listeners the pull stays suspended through every later step, data steps and
\* error emissions included, except the abort of its own signal, which rejects
\* it.
C37_DestroyLeavesPending ==
  [][\A sid \in Subs :
       /\ op' = "destroy" => subs'[sid] = subs[sid]
       /\ Orphaned(listeners, sid) =>
            IF op' = "abort" /\ aborted'[sid] /\ ~aborted[sid]
              THEN subs'[sid].pc = "rejected"
              ELSE subs'[sid] = subs[sid] /\ Detached(listeners', sid)]_vars

\* After destroy() took the listeners of a suspended pull away, the Mouse was
\* enabled again and a press was dispatched to a listener that threw: the pull
\* is still suspended.
C37_Witness ==
  /\ op = "data"
  /\ ThrowerRan
  /\ \E i \in 1..Len(emitted) : emitted[i].ch = "error"
  /\ Orphaned(listeners, "s1")

\* ------------------------------------------ claims: motion and PressMemory
\* The actions that are neither a press nor a release.
Motion == {"drag", "move", "wheel"}

\* The press a release is measured against: the last press or release that was
\* dispatched, if it is a press.
PressDispatched ==
  IF lastButton # Null /\ lastButton.action = "press" THEN lastButton ELSE Null

\* C38: a data step that dispatches only drags, moves and wheel turns leaves
\* PressMemory and the scheduled clicks as they were; and every dispatched
\* release within Chebyshev distance 1 of the press dispatched last before it,
\* with any number of drags, moves and wheel turns in between, schedules a
\* click.
C38_MotionKeepsPress ==
  [][op' = "data" =>
       /\ (\A i \in 1..Len(emitted') : emitted'[i].ch \in Motion \cup {"error"}) =>
            (lastPress' = lastPress /\ tickQueue' = tickQueue)
       /\ tickQueue' = tickQueue \o ClicksOf(PressDispatched, emitted', 1)]_vars

\* --------------------------------------- claims: the smallest capacities
\* max(1, min(maxQueue, 1000))
Retained(s) == Max(1, Min(s.maxQueue, QueueCeiling))

\* C39: the FIFO of an eventsOf() subscription is never longer than
\* max(1, min(maxQueue, 1000)) and holds the most recent arrivals up to that
\* number: with maxQueue of 0 or less it holds one event, the most recent
\* arrival, rather than none.
C39_QueueFloor ==
  \A sid \in Subs :
    LET s == subs[sid]
    IN (s.kind = "eventsOf" /\ ~s.latestOnly /\ s.pc # "done") =>
         /\ Len(s.queue) <= Retained(s)
         /\ s.queue = LastN(s.arrived, Retained(s))

\* Two presses reached a subscription of capacity zero or less while no pull
\* was suspended: its FIFO holds the second alone.
C39_Witness ==
  /\ op = "data"
  /\ subs["s1"].maxQueue <= 0
  /\ Len(subs["s1"].arrived) = 2
  /\ subs["s1"].queue = <<subs["s1"].arrived[2]>>

\* --------------------------------------- claims: an error nobody listens to
\* C40: when a listener throws in a data step while the error channel has no
\* listener, the step emits the error last, calls nobody with it, and lets the
\* listener's exception out to the input transport that called the data
\* handler.
C40_UnheardErrorPropagates ==
  (op = "data" /\ ThrowerRan /\ Len(listeners["error"]) = 0) =>
    /\ emitted[Len(emitted)] = [ch |-> "error", arg |-> HandlerError]
    /\ \A k \in 1..Len(calls) : calls[k].ch # "error"
    /\ uncaught
    /\ thrown = HandlerError

\* A listener threw with nobody listening for errors, after another listener
\* had been called in the same step.
C40_Witness ==
  /\ op = "data" /\ ThrowerRan
  /\ Len(listeners["error"]) = 0
  /\ uncaught
  /\ Len(calls) > 1
====
